---- MODULE Spec2Model ----
(***************************************************************************)
(* Maitri AI: request resilience layer.                                    *)
(*                                                                         *)
(*  - CircuitBreaker and AIEngine.generateResponse                         *)
(*      (src/MAITRI_AI/src/ai-engine/ai-engine-service.ts)                 *)
(*  - the AI Engine Lambda handler and its deployed configuration          *)
(*      (src/unnamed/part_011)                                             *)
(*  - FAQEngine, the lexical matcher, and the orchestrator handler's config *)
(*      (src/unnamed/part_009)                                             *)
(*  - RAGSystem and its EmbeddingCache (src/unnamed/part_008) with the      *)
(*      handler's config (src/MAITRI_AI/src/rag-system/index.ts)           *)
(*  - the voice processor Lambda handler (src/unnamed/part_004)            *)
(*  - the request orchestrator and its fallback chain, after the design    *)
(*      of the resilience layer                                            *)
(*                                                                         *)
(* Times are milliseconds, as Date.now() gives them.  Fractions (the       *)
(* failure-rate threshold, confidences, scores) are kept exact: a fraction *)
(* is a record [num, den] or a number of hundredths, and comparisons are   *)
(* cross-multiplied.                                                       *)
(***************************************************************************)
EXTENDS Integers, Sequences, FiniteSets, TLC

VARIABLES
    cfg,            \* the (threshold, windowMs, resetMs) the breaker was built with
    failures,       \* CircuitBreaker.failures: timestamps of recorded failures
    state,          \* CircuitBreaker.state: "closed" | "open" | "half-open"
    lastOpenTime,   \* CircuitBreaker.lastOpenTime
    now,            \* Date.now()
    calls,          \* per caller: the position of its generateResponse call
    outcome,        \* per caller: what its last generateResponse call gave
    invoked,        \* history: how many times the wrapped function was invoked
    nCalls,         \* history: how many execute() calls were made
    failLog,        \* history: every failure timestamp ever recorded
    lastEvent,      \* history: what the last breaker step was
    req,            \* the request being resolved: its stage, query and language
    ctx,            \* Request Context: resolved response text and response mode
    attempts,       \* history: the strategies attempted for this request, in order
    results,        \* history: the results the chain returned for this request
    modeSets,       \* history: how many times ctx.mode was assigned for this request
    trial,          \* history: what each attempted strategy produced
    nReq,           \* history: how many requests were started
    lexIn,          \* the lexical matcher's last input: query and language
    lexOut,         \* the score it gave each candidate, and what searchFAQs returned
    cache,          \* EmbeddingCache.cache: key -> (embedding, timestamp)
    rag,            \* the retrieveContext call in progress
    ragOut,         \* what the last retrieveContext call gave
    embedCalls,     \* history: how many times the embedding service was invoked
    servedAt,       \* history: per text, when the service last produced its vector
    failedTexts,    \* history: the texts whose last request failed at the embedding
    nRag,           \* history: how many retrieveContext calls were made
    orch,           \* the orchestrator's request: stage, input kind, response
    stageLog,       \* history: the stages the request went through, in order
    sendLog,        \* history: the send attempts of the request
    nOrch,          \* history: how many requests the orchestrator received
    tx,             \* the transcribeAudio call in progress
    txOut,          \* what the last transcribeAudio call gave the handler
    nTx,            \* history: how many transcribeAudio calls were made
    user,           \* the user's item in the users table
    det,            \* the detectLanguage calls in progress
    detOut,         \* what the last detectLanguage call of each caller returned
    detLog,         \* history: the interactions, in the order they ended
    nDet,           \* history: how many detectLanguage calls were made
    hook,           \* the webhook request in progress
    hookOut,        \* the answer to the last webhook request
    s3Log,          \* history: the events whose audio was put in S3
    invokeLog,      \* history: the events forwarded to the orchestrator
    nHook,          \* history: how many webhook requests arrived
    bucket,         \* the objects of the voice bucket
    clean,          \* the cleanup run in progress
    cleanLog,       \* history: what the latest cleanup run listed, asked for and removed
    nClean,         \* history: how many cleanup runs started
    tts,            \* the synthesizeSpeech call in progress and what the last one gave
    nTts,           \* history: how many synthesizeSpeech calls were made
    nCleanTick,     \* history: how many times the clock of the bucket advanced
    govCache,       \* AIEngine.governmentApiCache
    gov,            \* the queryGovernmentAPI call in progress
    govOut,         \* what the last queryGovernmentAPI call returned or threw
    nGov,           \* history: how many queryGovernmentAPI calls were made
    nGovTick        \* history: how many times the clock of the calls advanced

breakerVars == <<cfg, failures, state, lastOpenTime, now, calls, outcome,
                 invoked, nCalls, failLog, lastEvent>>

\* The breaker and the AI engine without the clock.
breakerState == <<cfg, failures, state, lastOpenTime, calls, outcome,
                  invoked, nCalls, failLog, lastEvent>>

chainVars == <<req, ctx, attempts, results, modeSets, trial, nReq>>

lexVars == <<lexIn, lexOut>>

ragVars == <<cache, rag, ragOut, embedCalls, servedAt, failedTexts, nRag>>

orchVars == <<orch, stageLog, sendLog, nOrch>>

\* What the AI engine and the fallback chain leave alone.
txVars == <<tx, txOut, nTx>>

detVars == <<user, det, detOut, detLog, nDet>>

hookVars == <<hook, hookOut, s3Log, invokeLog, nHook>>

cleanVars == <<clean, cleanLog, nClean, nCleanTick>>

\* The voice bucket, written by the webhook and the text-to-speech service
s3Vars == <<bucket>>

ttsVars == <<tts, nTts>>

govVars == <<govCache, gov, govOut, nGov, nGovTick>>

extVars == <<lexVars, ragVars, orchVars, txVars, detVars, hookVars, cleanVars, s3Vars, ttsVars, govVars>>

vars == <<breakerVars, chainVars, extVars>>

-----------------------------------------------------------------------------
(* Bounds of the model *)

MaxCalls == 5
MaxTicks == 5
MaxRequests == 3

-----------------------------------------------------------------------------
(* Fractions *)

Frac(n, d) == [num |-> n, den |-> d]

FracGE(a, b) == a.num * b.den >= b.num * a.den

FracGT(a, b) == a.num * b.den > b.num * a.den

-----------------------------------------------------------------------------
(* Configuration *)

\* circuitBreakerThreshold: 0.5
circuitBreakerThreshold == Frac(1, 2)
circuitBreakerWindowMs == 60000
circuitBreakerResetMs == 30000

\* new CircuitBreaker(config.circuitBreakerThreshold, config.circuitBreakerWindowMs,
\*                    config.circuitBreakerResetMs) with the deployed config
DeployedConfig ==
    [threshold |-> circuitBreakerThreshold,
     windowMs  |-> circuitBreakerWindowMs,
     resetMs   |-> circuitBreakerResetMs]

\* Other constructor arguments: the same threshold over shorter windows, so that
\* the count that reaches the threshold is small.  With a 4 s window two failures
\* give a rate of exactly 0.5; with a 3 s window two failures give 0.67.
ShortConfigs ==
    {[threshold |-> circuitBreakerThreshold, windowMs |-> 4000, resetMs |-> 2000],
     [threshold |-> circuitBreakerThreshold, windowMs |-> 3000, resetMs |-> 2000]}

Configs == {DeployedConfig} \cup ShortConfigs

\* The clock advances in steps of half a reset interval.
TickMs(c) == c.resetMs \div 2

Callers == {1, 2}

-----------------------------------------------------------------------------
(* CircuitBreaker *)

Breaker == [failures |-> failures, state |-> state, lastOpenTime |-> lastOpenTime]

\* failures.length / (windowMs / 1000)
FailureRate(n, c) == Frac(n * 1000, c.windowMs)

\* recordFailure(): push now, drop what is outside the window, open if the rate
\* has reached the threshold and the breaker is closed.
RecordFailureKeepAll(b, t, c) ==
    LET kept  == Append(b.failures, t)
        opens == FracGE(FailureRate(Len(kept), c), c.threshold) /\ b.state = "closed"
    IN  [failures     |-> kept,
         state        |-> IF opens THEN "open" ELSE b.state,
         lastOpenTime |-> IF opens THEN t ELSE b.lastOpenTime]

RecordFailure(b, t, c) ==
    LET kept  == SelectSeq(Append(b.failures, t), LAMBDA x : t - x < c.windowMs)
        opens == FracGE(FailureRate(Len(kept), c), c.threshold) /\ b.state = "closed"
    IN  [failures     |-> kept,
         state        |-> IF opens THEN "open" ELSE b.state,
         lastOpenTime |-> IF opens THEN t ELSE b.lastOpenTime]

\* execute(), up to the call of fn: the open check.
ExecuteAdmit(b, t, c) ==
    IF b.state = "open"
    THEN IF t - b.lastOpenTime >= c.resetMs
         THEN [state |-> "half-open", admitted |-> TRUE]
         ELSE [state |-> "open", admitted |-> FALSE]
    ELSE [state |-> b.state, admitted |-> TRUE]

\* execute(), after fn resolved: a half-open breaker closes and forgets.
ExecuteSuccessKeepHistory(b) ==
    IF b.state = "half-open" THEN [b EXCEPT !.state = "closed"] ELSE b

ExecuteSuccess(b) ==
    IF b.state = "half-open"
    THEN [b EXCEPT !.state = "closed", !.failures = <<>>]
    ELSE b

\* isOpen()
IsOpen(b) == b.state = "open"

\* AIEngine.isOnlineAvailable()
IsOnlineAvailable(b) == ~IsOpen(b)

-----------------------------------------------------------------------------
(* AIEngine.generateResponse *)

\* What circuitBreaker.execute(fn) gave: fn's value, or the error thrown.
Resolved(v) == [ok |-> TRUE, text |-> v.text, confidence |-> v.confidence, error |-> ""]

Thrown(e) == [ok |-> FALSE, text |-> "", confidence |-> Frac(0, 1), error |-> e]

\* invokeBedrock: the model's text with the fixed confidence 0.9.
BedrockConfidence == Frac(9, 10)

InvokeBedrock == [text |-> "bedrock-text", confidence |-> BedrockConfidence]

NoOutcome ==
    [kind |-> "none", text |-> "", mode |-> "", confidence |-> Frac(0, 1), message |-> ""]

Pending == [NoOutcome EXCEPT !.kind = "pending"]

\* generateResponse: the response with mode 'online', or, for every error,
\* the one error 'AI Engine unavailable - fallback to offline mode'.
GenerateResponseSwallow(r) ==
    [kind |-> "response", text |-> r.text, mode |-> "online",
     confidence |-> BedrockConfidence, message |-> ""]

GenerateResponseRethrow(r) ==
    IF r.ok
    THEN [kind |-> "response", text |-> r.text, mode |-> "online",
          confidence |-> r.confidence, message |-> ""]
    ELSE [kind |-> "error", text |-> "", mode |-> "", confidence |-> Frac(0, 1),
          message |-> r.error]

GenerateResponse(r) ==
    IF r.ok
    THEN [kind |-> "response", text |-> r.text, mode |-> "online",
          confidence |-> r.confidence, message |-> ""]
    ELSE [kind |-> "error", text |-> "", mode |-> "", confidence |-> Frac(0, 1),
          message |-> "AI Engine unavailable - fallback to offline mode"]

Idle == [pc |-> "idle", probe |-> FALSE]

\* generateResponse entered: circuitBreaker.execute runs to its first await.
\* A call made while the breaker is open and not yet due for a probe throws
\* 'Circuit breaker is open' without calling fn.
CallBegin(c) ==
    /\ calls[c].pc = "idle"
    /\ nCalls < MaxCalls
    /\ LET a == ExecuteAdmit(Breaker, now, cfg)
       IN  /\ state' = a.state
           /\ nCalls' = nCalls + 1
           /\ IF a.admitted
              THEN /\ calls' = [calls EXCEPT ![c] =
                         [pc |-> "running", probe |-> state = "open"]]
                   /\ invoked' = invoked + 1
                   /\ outcome' = [outcome EXCEPT ![c] = Pending]
                   /\ lastEvent' = "admitted"
              ELSE /\ calls' = calls
                   /\ invoked' = invoked
                   /\ outcome' = [outcome EXCEPT ![c] =
                         GenerateResponse(Thrown("Circuit breaker is open"))]
                   /\ lastEvent' = "rejected"
    /\ UNCHANGED <<cfg, failures, lastOpenTime, now, failLog>>

\* fn resolved.
CallSucceed(c) ==
    /\ calls[c].pc = "running"
    /\ LET b == ExecuteSuccess(Breaker)
       IN  /\ state' = b.state
           /\ failures' = b.failures
           /\ lastOpenTime' = b.lastOpenTime
    /\ calls' = [calls EXCEPT ![c] = Idle]
    /\ outcome' = [outcome EXCEPT ![c] = GenerateResponse(Resolved(InvokeBedrock))]
    /\ lastEvent' = IF calls[c].probe THEN "probe-success" ELSE "success"
    /\ UNCHANGED <<cfg, now, invoked, nCalls, failLog>>

\* fn rejected (an upstream error or the 'Bedrock invocation timeout'):
\* recordFailure(), then the error is rethrown.
CallFail(c) ==
    /\ calls[c].pc = "running"
    /\ LET b == RecordFailure(Breaker, now, cfg)
       IN  /\ state' = b.state
           /\ failures' = b.failures
           /\ lastOpenTime' = b.lastOpenTime
    /\ failLog' = Append(failLog, now)
    /\ calls' = [calls EXCEPT ![c] = Idle]
    /\ \E e \in {"Bedrock invocation timeout", "upstream error"} :
          outcome' = [outcome EXCEPT ![c] = GenerateResponse(Thrown(e))]
    /\ lastEvent' = IF calls[c].probe THEN "probe-failure" ELSE "failure"
    /\ UNCHANGED <<cfg, now, invoked, nCalls>>

\* Date.now() moves on.
ClockAdvance ==
    /\ now + TickMs(cfg) <= MaxTicks * TickMs(cfg)
    /\ now' = now + TickMs(cfg)
    /\ lastEvent' = "tick"
    /\ UNCHANGED <<cfg, failures, state, lastOpenTime, calls, outcome,
                   invoked, nCalls, failLog>>

NoneInFlight == \A c \in Callers : calls[c].pc = "idle"

-----------------------------------------------------------------------------
(* FAQEngine: the lexical matcher *)

\* A text is the sequence of its whitespace-separated pieces; "" is the empty
\* piece that split(/\s+/) yields for leading or trailing whitespace.  A word
\* of another script is written as its UTF-16 code units, each as u and four
\* hexadecimal digits: "u0939u0948" is the Hindi stop word of code units 0939
\* and 0948.  These scripts have no letter case.

LanguageCodes == {"hi", "en", "ta", "te", "bn", "mr", "gu", "kn", "ml", "pa"}

\* STOP_WORDS[languageCode] || []
STOP_WORDS(lang) ==
    CASE lang = "hi" ->
           {"u0939u0948", "u0939u0948u0902", "u0925u093e", "u0925u0947",
            "u0915u0940", "u0915u093e", "u0915u0947", "u092eu0947u0902",
            "u0938u0947", "u0915u094b", "u0914u0930", "u092fu093e",
            "u092fu0939", "u0935u0939", "u0907u0938", "u0909u0938"}
      [] lang = "en" ->
           {"the", "is", "are", "was", "were", "a", "an", "in", "on",
            "at", "to", "for", "of", "with", "by", "from", "this",
            "that"}
      [] lang = "ta" ->
           {"u0b87u0ba4u0bc1", "u0b85u0ba4u0bc1", "u0b92u0bb0u0bc1",
            "u0baeu0bb1u0bcdu0bb1u0bc1u0baeu0bcd",
            "u0b85u0bb2u0bcdu0bb2u0ba4u0bc1",
            "u0b8eu0ba9u0bcdu0bb1u0bc1", "u0b87u0bb2u0bcd",
            "u0b89u0bb3u0bcdu0bb3"}
      [] lang = "te" ->
           {"u0c07u0c26u0c3f", "u0c05u0c26u0c3f", "u0c12u0c15",
            "u0c2eu0c30u0c3fu0c2fu0c41", "u0c32u0c47u0c26u0c3e",
            "u0c05u0c28u0c3f", "u0c32u0c4b", "u0c09u0c28u0c4du0c28"}
      [] lang = "bn" ->
           {"u098fu0987", "u09b8u09c7u0987", "u098fu0995u099fu09bf",
            "u098fu09acu0982", "u09acu09be", "u09afu09c7",
            "u09aeu09a7u09cdu09afu09c7", "u0986u099bu09c7"}
      [] lang = "mr" ->
           {"u0939u0947", "u0924u0947", "u090fu0915", "u0906u0923u093f",
            "u0915u093fu0902u0935u093e", "u0915u0940",
            "u092eu0927u094du092fu0947", "u0906u0939u0947"}
      [] lang = "gu" ->
           {"u0a86", "u0aa4u0ac7", "u0a8fu0a95", "u0a85u0aa8u0ac7",
            "u0a85u0aa5u0ab5u0abe", "u0a95u0ac7", "u0aaeu0abeu0a82",
            "u0a9bu0ac7"}
      [] lang = "kn" ->
           {"u0c87u0ca6u0cc1", "u0c85u0ca6u0cc1", "u0c92u0c82u0ca6u0cc1",
            "u0caeu0ca4u0ccdu0ca4u0cc1", "u0c85u0ca5u0cb5u0cbe",
            "u0c8eu0c82u0ca6u0cc1", "u0ca8u0cb2u0ccdu0cb2u0cbf",
            "u0c87u0ca6u0cc6"}
      [] lang = "ml" ->
           {"u0d07u0d24u0d4d", "u0d05u0d24u0d4d", "u0d12u0d30u0d41",
            "u0d12u0d2au0d4du0d2au0d02",
            "u0d05u0d32u0d4du0d32u0d46u0d19u0d4du0d15u0d3fu0d7d",
            "u0d0eu0d28u0d4du0d28u0d4d", "u0d7d",
            "u0d09u0d23u0d4du0d1fu0d4d"}
      [] lang = "pa" ->
           {"u0a07u0a39", "u0a09u0a39", "u0a07u0a71u0a15",
            "u0a05u0a24u0a47", "u0a1cu0a3eu0a02", "u0a15u0a3f",
            "u0a35u0a3fu0a71u0a1a", "u0a39u0a48"}
      [] OTHER -> {}

\* String.prototype.toLowerCase on the words of the model
ToLowerCase(w) ==
    CASE w = "What" -> "what"
      [] w = "Is" -> "is"
      [] w = "PM-KISAN" -> "pm-kisan"
      [] w = "How" -> "how"
      [] w = "Pension" -> "pension"
      [] OTHER -> w

\* extractKeywords: lower-case, split, drop empty tokens, drop stop words
ExtractKeywords(text, lang) ==
    LET lowered == [i \in 1..Len(text) |-> ToLowerCase(text[i])]
        tokens  == SelectSeq(lowered, LAMBDA w : w # "")
    IN  SelectSeq(tokens, LAMBDA w : w \notin STOP_WORDS(lang))

Range(f) == {f[i] : i \in DOMAIN f}

Reverse(q) == [i \in 1..Len(q) |-> q[Len(q) + 1 - i]]

\* calculateKeywordOverlap: the query keywords found among the FAQ keywords,
\* over the number of query keywords; 0 for a query without keywords
CalculateKeywordOverlapNoGuard(queryKeywords, faqKeywords) ==
    Frac(Cardinality({i \in 1..Len(queryKeywords) :
                         queryKeywords[i] \in Range(faqKeywords)}),
         Len(queryKeywords))

CalculateKeywordOverlap(queryKeywords, faqKeywords) ==
    IF Len(queryKeywords) = 0
    THEN Frac(0, 1)
    ELSE Frac(Cardinality({i \in 1..Len(queryKeywords) :
                              queryKeywords[i] \in Range(faqKeywords)}),
              Len(queryKeywords))

\* keywordMatchThreshold: 0.7
keywordMatchThreshold == Frac(7, 10)

NoMatch == [id |-> "", question |-> <<>>, answer |-> "", languageCode |-> ""]

\* The loop of searchFAQs over faqs[1..n]: the best match and score so far.
RECURSIVE BestOfLastSeen(_, _, _, _)
RECURSIVE BestOf(_, _, _, _)
BestOfLastSeen(queryKeywords, faqs, lang, n) ==
    IF n = 0
    THEN [match |-> NoMatch, score |-> Frac(0, 1)]
    ELSE LET prev  == BestOfLastSeen(queryKeywords, faqs, lang, n - 1)
             score == CalculateKeywordOverlap(
                          queryKeywords, ExtractKeywords(faqs[n].question, lang))
         IN  IF FracGE(score, prev.score)
             THEN [match |-> faqs[n], score |-> score]
             ELSE prev

BestOf(queryKeywords, faqs, lang, n) ==
    IF n = 0
    THEN [match |-> NoMatch, score |-> Frac(0, 1)]
    ELSE LET prev  == BestOf(queryKeywords, faqs, lang, n - 1)
             score == CalculateKeywordOverlap(
                          queryKeywords, ExtractKeywords(faqs[n].question, lang))
         IN  IF FracGT(score, prev.score)
             THEN [match |-> faqs[n], score |-> score]
             ELSE prev

\* searchFAQs: the best match if its score meets the threshold, else no match
SearchFAQsStrictThreshold(query, lang, faqs) ==
    LET best == BestOf(ExtractKeywords(query, lang), faqs, lang, Len(faqs))
    IN  IF FracGT(best.score, keywordMatchThreshold)
        THEN best
        ELSE [match |-> NoMatch, score |-> best.score]

SearchFAQs(query, lang, faqs) ==
    LET best == BestOf(ExtractKeywords(query, lang), faqs, lang, Len(faqs))
    IN  IF FracGE(best.score, keywordMatchThreshold)
        THEN best
        ELSE [match |-> NoMatch, score |-> best.score]

\* DEFAULT_RESPONSES[languageCode]: the message of that language, or undefined
Undefined == "undefined"

DEFAULT_RESPONSES(lang) ==
    IF lang \in LanguageCodes THEN "default-response-" \o lang ELSE Undefined

\* getDefaultResponse: DEFAULT_RESPONSES[languageCode] || DEFAULT_RESPONSES.en
GetDefaultResponseNoFallback(lang) == DEFAULT_RESPONSES(lang)

GetDefaultResponse(lang) ==
    IF DEFAULT_RESPONSES(lang) # Undefined
    THEN DEFAULT_RESPONSES(lang)
    ELSE DEFAULT_RESPONSES("en")

\* The FAQ table (the knowledge store), in the order a scan returns it.
FAQTable ==
    << [id |-> "faq-1", question |-> <<"What", "is", "PM-KISAN", "eligibility">>,
        answer |-> "answer-1", languageCode |-> "en"],
       [id |-> "faq-2", question |-> <<"How", "to", "apply", "for", "Pension">>,
        answer |-> "answer-2", languageCode |-> "en"],
       [id |-> "faq-3",
        question |-> <<"u0915u093fu0938u093eu0928", "u092fu094bu091cu0928u093e",
                       "u0915u094du092fu093e", "u0939u0948">>,
        answer |-> "answer-3", languageCode |-> "hi"],
       [id |-> "faq-4", question |-> <<"PM-KISAN", "eligibility", "documents">>,
        answer |-> "answer-4", languageCode |-> "en"],
       [id |-> "faq-5", question |-> <<"u0b87u0ba4u0bc1", "loan">>,
        answer |-> "answer-5", languageCode |-> "ta"] >>

\* fetchFAQs: the entries whose languageCode is the requested one
FetchFAQs(lang) == SelectSeq(FAQTable, LAMBDA f : f.languageCode = lang)

-----------------------------------------------------------------------------
(* The fallback chain of the request orchestrator *)

\* The requests of the model: a query text and the detected language.
Requests ==
    { [query |-> <<"What", "is", "PM-KISAN", "eligibility">>, lang |-> "en"],
      [query |-> <<"pm-kisan", "eligibility", "amount">>, lang |-> "en"],
      [query |-> <<"how", "apply", "pension", "how", "apply", "pension",
                   "Pension", "loan", "loan", "loan">>, lang |-> "en"],
      [query |-> <<"", "Is", "the", "a">>, lang |-> "en"],
      [query |-> <<"u0915u093fu0938u093eu0928", "u092fu094bu091cu0928u093e", "u0915u093e">>,
       lang |-> "hi"],
      [query |-> <<"What", "is", "PM-KISAN", "eligibility">>, lang |-> "xx"] }

\* Acceptance floors: the model-backed result needs confidence > 0.7, the
\* lexical match needs score >= 0.7.
ModelFloor == Frac(7, 10)
LexicalFloor == Frac(7, 10)

NoText == ""

NoTrial ==
    [model |-> "none", confidence |-> Frac(0, 1),
     lexical |-> "none", score |-> Frac(0, 1), match |-> NoMatch]

NoRequest == [pc |-> "idle", query |-> <<>>, lang |-> ""]

NoContext == [text |-> NoText, mode |-> "none"]

Result(text, mode, confidence) ==
    [text |-> text, mode |-> mode, confidence |-> confidence]

ModelAcceptedNever(o) == FALSE

ModelAccepted(o) == o.kind = "response" /\ FracGT(o.confidence, ModelFloor)

LexicalAccepted(r) == FracGE(r.score, LexicalFloor)

\* The chain accepts a result: it is returned and the context takes its text
\* and mode.
Accept(r) ==
    /\ results' = Append(results, r)
    /\ ctx' = [text |-> r.text, mode |-> r.mode]
    /\ modeSets' = modeSets + 1
    /\ req' = [req EXCEPT !.pc = "done"]

\* The chain moves on to the strategy `next`; nothing is returned or set.
FallThroughMarkingOffline(next) ==
    /\ req' = [req EXCEPT !.pc = next]
    /\ ctx' = [ctx EXCEPT !.mode = "offline"]
    /\ modeSets' = modeSets + 1
    /\ UNCHANGED results

FallThrough(next) ==
    /\ req' = [req EXCEPT !.pc = next]
    /\ UNCHANGED <<results, ctx, modeSets>>

\* What the chain does with what generateResponse gave.
AfterModel(o, what) ==
    /\ trial' = [trial EXCEPT !.model = what, !.confidence = o.confidence]
    /\ IF ModelAccepted(o)
       THEN Accept(Result(o.text, o.mode, o.confidence))
       ELSE FallThrough("lexical")

\* A request arrives: the chain starts with the model-backed strategy.
ChainStart ==
    /\ req.pc \in {"idle", "done"}
    /\ nReq < MaxRequests
    /\ \E r \in Requests : req' = [pc |-> "model", query |-> r.query, lang |-> r.lang]
    /\ nReq' = nReq + 1
    /\ ctx' = NoContext
    /\ attempts' = <<>>
    /\ results' = <<>>
    /\ modeSets' = 0
    /\ trial' = NoTrial
    /\ UNCHANGED <<breakerVars, extVars>>

\* Strategy 1, first half: the retrieval engine is asked for context.  If it
\* throws, the attempt has failed.
ChainRetrieve ==
    /\ req.pc = "model"
    /\ attempts' = Append(attempts, "model")
    /\ \E ok \in BOOLEAN :
          IF ok
          THEN /\ req' = [req EXCEPT !.pc = "inference"]
               /\ UNCHANGED <<results, ctx, modeSets, trial>>
          ELSE /\ trial' = [trial EXCEPT !.model = "retrieval-failed"]
               /\ FallThrough("lexical")
    /\ UNCHANGED <<nReq, breakerVars, extVars>>

\* Strategy 1, second half: generateResponse is called.
ChainInfer ==
    /\ req.pc = "inference"
    /\ NoneInFlight
    /\ CallBegin(1)
    /\ IF calls'[1].pc = "running"
       THEN /\ req' = [req EXCEPT !.pc = "awaiting"]
            /\ UNCHANGED <<results, ctx, modeSets, trial>>
       ELSE AfterModel(outcome'[1], "rejected")
    /\ UNCHANGED <<attempts, nReq, extVars>>

ChainInferOk ==
    /\ req.pc = "awaiting"
    /\ CallSucceed(1)
    /\ AfterModel(outcome'[1], "succeeded")
    /\ UNCHANGED <<attempts, nReq, extVars>>

ChainInferFail ==
    /\ req.pc = "awaiting"
    /\ CallFail(1)
    /\ AfterModel(outcome'[1], "failed")
    /\ UNCHANGED <<attempts, nReq, extVars>>

\* Strategy 2: the lexical matcher.  If the store read throws, the attempt has
\* failed.
ChainLexical ==
    /\ req.pc = "lexical"
    /\ attempts' = Append(attempts, "lexical")
    /\ \E storeOk \in BOOLEAN :
          IF storeOk
          THEN LET r == SearchFAQs(req.query, req.lang, FetchFAQs(req.lang))
               IN  /\ trial' = [trial EXCEPT !.lexical = "scored",
                                            !.score = r.score, !.match = r.match]
                   /\ IF LexicalAccepted(r)
                      THEN Accept(Result(r.match.answer, "offline", r.score))
                      ELSE FallThrough("default")
          ELSE /\ trial' = [trial EXCEPT !.lexical = "threw"]
               /\ FallThrough("default")
    /\ UNCHANGED <<nReq, breakerVars, extVars>>

\* Strategy 3: the default response of the language, with confidence 0.
ChainDefault ==
    /\ req.pc = "default"
    /\ attempts' = Append(attempts, "default")
    /\ Accept(Result(GetDefaultResponse(req.lang), "offline", Frac(0, 1)))
    /\ UNCHANGED <<trial, nReq, breakerVars, extVars>>

-----------------------------------------------------------------------------
(* The lexical matcher on its own: searchFAQs over every short query *)

MaxQueryLen == 3

\* The pieces a query of the model is made of: the empty piece, an English
\* stop word, one in capitals, words of the FAQ questions, a word of none, a
\* Hindi stop word and a Tamil one.
QueryWords ==
    {"", "the", "Is", "pm-kisan", "eligibility", "loan", "u0939u0948", "u0b87u0ba4u0bc1"}

RECURSIVE SeqsUpTo(_, _)
SeqsUpTo(S, n) ==
    IF n = 0
    THEN {<<>>}
    ELSE LET shorter == SeqsUpTo(S, n - 1)
         IN  shorter \cup {Append(q, w) : q \in {x \in shorter : Len(x) = n - 1}, w \in S}

NoLexInput == [pc |-> "idle", query |-> <<>>, lang |-> "", queryKeywords |-> <<>>]

NoLexOutput ==
    [called |-> FALSE, rejected |-> FALSE, scanned |-> <<>>, scores |-> <<>>,
     best |-> [match |-> NoMatch, score |-> Frac(0, 1)]]

\* The score of every candidate, in the order fetchFAQs returned them (the
\* loop body of searchFAQs).
CandidateScores(query, lang, faqs) ==
    [i \in 1..Len(faqs) |->
        CalculateKeywordOverlap(ExtractKeywords(query, lang),
                                ExtractKeywords(faqs[i].question, lang))]

\* What the scan of fetchFAQs can answer: the entries of the language, in
\* either order.
LexScanResults(lang) == {FetchFAQs(lang), Reverse(FetchFAQs(lang))}

\* searchFAQs(query, languageCode) up to its await: the query keywords are
\* extracted and the scan is sent.
LexBegin ==
    /\ lexIn.pc = "idle"
    /\ ~lexOut.called /\ ~lexOut.rejected
    /\ \E q \in SeqsUpTo(QueryWords, MaxQueryLen), l \in {"en", "hi", "ta"} :
          lexIn' = [pc |-> "scanning", query |-> q, lang |-> l,
                    queryKeywords |-> ExtractKeywords(q, l)]
    /\ UNCHANGED <<lexOut, breakerVars, chainVars, ragVars, orchVars, txVars, detVars,
                   hookVars, cleanVars, s3Vars, ttsVars, govVars>>

\* The scan resolved: the candidates are scored and searchFAQs returns.
LexScanOk ==
    /\ lexIn.pc = "scanning"
    /\ lexIn' = [lexIn EXCEPT !.pc = "idle"]
    /\ \E faqs \in LexScanResults(lexIn.lang) :
          lexOut' = [called |-> TRUE, rejected |-> FALSE, scanned |-> faqs,
                     scores |-> CandidateScores(lexIn.query, lexIn.lang, faqs),
                     best   |-> SearchFAQs(lexIn.query, lexIn.lang, faqs)]
    /\ UNCHANGED <<breakerVars, chainVars, ragVars, orchVars, txVars, detVars,
                   hookVars, cleanVars, s3Vars, ttsVars, govVars>>

\* The scan was rejected: searchFAQs rejects with the error of the scan.
LexScanFail ==
    /\ lexIn.pc = "scanning"
    /\ lexIn' = [lexIn EXCEPT !.pc = "idle"]
    /\ lexOut' = [NoLexOutput EXCEPT !.rejected = TRUE]
    /\ UNCHANGED <<breakerVars, chainVars, ragVars, orchVars, txVars, detVars,
                   hookVars, cleanVars, s3Vars, ttsVars, govVars>>

-----------------------------------------------------------------------------
(* RAGSystem: the retrieval engine and its embedding cache *)

MaxRagCalls == 3

\* The RAG System Lambda handler's config
similarityThreshold == Frac(7, 10)
maxResults == 5
cacheTTL == 3600000

\* The clock advances in steps of half a TTL.
CacheTickMs == cacheTTL \div 2

\* A text is the sequence of its character codes: "Aa", "BB" and "Ab".
Texts == {<<65, 97>>, <<66, 66>>, <<65, 98>>}

\* hash & hash: the value as a 32-bit integer.  The texts of the model are
\* short, so ((hash << 5) - hash) + char stays inside the 32 bits.
ToInt32(x) == x

RECURSIVE HashLoop(_, _)
HashLoop(text, n) ==
    IF n = 0
    THEN 0
    ELSE LET hash == HashLoop(text, n - 1)
         IN  ToInt32(((hash * 32) - hash) + text[n])

\* Number.prototype.toString(36): the digits of |n| in base 36, most
\* significant first, behind a sign.
RECURSIVE Digits36(_)
Digits36(n) == IF n < 36 THEN <<n>> ELSE Append(Digits36(n \div 36), n % 36)

ToString36(n) ==
    IF n < 0 THEN [negative |-> TRUE, digits |-> Digits36(0 - n)]
             ELSE [negative |-> FALSE, digits |-> Digits36(n)]

\* hashText
HashText(text) == ToString36(HashLoop(text, Len(text)))

CacheKeys == {HashText(t) : t \in Texts}

\* What the embedding service (Titan) answers for a text.
TitanEmbedding(text) ==
    CASE text = <<65, 97>> -> <<1, 0>>
      [] text = <<66, 66>> -> <<3, 4>>
      [] OTHER -> <<0, 0>>

NoEntry == [present |-> FALSE, embedding |-> <<>>, timestamp |-> 0, text |-> <<>>]

\* EmbeddingCache.get: the entry of the key unless it is older than the TTL,
\* in which case it is deleted.  `text` is history: the text the vector was
\* produced for.
CacheGet(c, key, t, ttl) ==
    IF ~c[key].present
    THEN [hit |-> FALSE, cache |-> c, embedding |-> <<>>]
    ELSE IF t - c[key].timestamp > ttl
         THEN [hit |-> FALSE, cache |-> [c EXCEPT ![key] = NoEntry], embedding |-> <<>>]
         ELSE [hit |-> TRUE, cache |-> c, embedding |-> c[key].embedding]

\* EmbeddingCache.set
CacheSet(c, key, embedding, t, text) ==
    [c EXCEPT ![key] = [present |-> TRUE, embedding |-> embedding,
                        timestamp |-> t, text |-> text]]

\* cosineSimilarity: dotProduct / (sqrt(normA) * sqrt(normB)), 0 if a norm is 0.
\* The quotient is kept as (dot, normA, normB) with the norms squared.
SumTo(f, n) ==
    LET RECURSIVE S(_)
        S(i) == IF i = 0 THEN 0 ELSE S(i - 1) + f[i]
    IN  S(n)

CosineSimilarity(a, b) ==
    LET prod == [i \in 1..Len(a) |-> a[i] * b[i]]
        sqa  == [i \in 1..Len(a) |-> a[i] * a[i]]
        sqb  == [i \in 1..Len(a) |-> b[i] * b[i]]
        na   == SumTo(sqa, Len(a))
        nb   == SumTo(sqb, Len(a))
    IN  IF na = 0 \/ nb = 0
        THEN [dot |-> 0, na |-> 1, nb |-> 1]
        ELSE [dot |-> SumTo(prod, Len(a)), na |-> na, nb |-> nb]

\* score >= threshold, for a threshold above 0
ScoreGE(s, th) ==
    s.dot > 0 /\ th.den * th.den * s.dot * s.dot >= th.num * th.num * s.na * s.nb

\* x.score > y.score
ScoreGT(x, y) ==
    IF x.dot > 0
    THEN y.dot <= 0 \/ x.dot * x.dot * y.na * y.nb > y.dot * y.dot * x.na * x.nb
    ELSE IF x.dot = 0
         THEN y.dot < 0
         ELSE y.dot < 0 /\ x.dot * x.dot * y.na * y.nb < y.dot * y.dot * x.na * x.nb

\* Array.prototype.sort((a, b) => b.score - a.score): descending and stable.
RECURSIVE InsertByScore(_, _)
InsertByScore(sorted, r) ==
    IF sorted = <<>>
    THEN <<r>>
    ELSE IF ScoreGT(r.score, sorted[Len(sorted)].score)
         THEN Append(InsertByScore(SubSeq(sorted, 1, Len(sorted) - 1), r),
                     sorted[Len(sorted)])
         ELSE Append(sorted, r)

RECURSIVE SortByScore(_)
SortByScore(rs) ==
    IF rs = <<>>
    THEN <<>>
    ELSE InsertByScore(SortByScore(SubSeq(rs, 1, Len(rs) - 1)), rs[Len(rs)])

\* Array.prototype.slice(0, n)
Slice(rs, n) == SubSeq(rs, 1, IF Len(rs) < n THEN Len(rs) ELSE n)

\* semanticSearch after the scan: score, filter, sort, slice.  A vector of
\* another length makes cosineSimilarity throw.
SemanticSearchNoSlice(queryEmbedding, faqs) ==
    IF \E i \in 1..Len(faqs) : Len(faqs[i].embedding) # Len(queryEmbedding)
    THEN [ok |-> FALSE, entries |-> <<>>, scores |-> <<>>,
          error |-> "Vectors must have the same length"]
    ELSE LET scored == [i \in 1..Len(faqs) |->
                          [faq |-> faqs[i],
                           score |-> CosineSimilarity(queryEmbedding, faqs[i].embedding)]]
             kept   == SelectSeq(scored, LAMBDA r : ScoreGE(r.score, similarityThreshold))
             top    == SortByScore(kept)
         IN  [ok |-> TRUE,
              entries |-> [i \in 1..Len(top) |-> top[i].faq],
              scores  |-> [i \in 1..Len(top) |-> top[i].score],
              error |-> ""]

SemanticSearch(queryEmbedding, faqs) ==
    IF \E i \in 1..Len(faqs) : Len(faqs[i].embedding) # Len(queryEmbedding)
    THEN [ok |-> FALSE, entries |-> <<>>, scores |-> <<>>,
          error |-> "Vectors must have the same length"]
    ELSE LET scored == [i \in 1..Len(faqs) |->
                          [faq |-> faqs[i],
                           score |-> CosineSimilarity(queryEmbedding, faqs[i].embedding)]]
             kept   == SelectSeq(scored, LAMBDA r : ScoreGE(r.score, similarityThreshold))
             top    == Slice(SortByScore(kept), maxResults)
         IN  [ok |-> TRUE,
              entries |-> [i \in 1..Len(top) |-> top[i].faq],
              scores  |-> [i \in 1..Len(top) |-> top[i].score],
              error |-> ""]

\* The knowledge store: what a scan of the FAQ table filtered by language can
\* return.
Entry(id, lang, embedding) == [id |-> id, languageCode |-> lang, embedding |-> embedding]

EnglishEntries ==
    << Entry("e1", "en", <<3, 4>>), Entry("e2", "en", <<1, 1>>),
       Entry("e3", "en", <<2, 1>>), Entry("e4", "en", <<2, -1>>),
       Entry("e5", "en", <<1, 0>>), Entry("e6", "en", <<4, 1>>),
       Entry("e7", "en", <<4, 3>>), Entry("e8", "en", <<-1, 0>>),
       Entry("e9", "en", <<0, 0>>) >>

ScanResults(lang) ==
    IF lang = "en"
    THEN {EnglishEntries, Reverse(EnglishEntries),
          <<Entry("e1", "en", <<3, 4>>), Entry("e10", "en", <<1, 0, 0>>)>>}
    ELSE {<<>>, <<Entry("h1", "hi", <<1, 0>>), Entry("h2", "hi", <<3, 4>>)>>}

\* What the retrieval engine leaves alone.
notRag ==
    <<breakerState, chainVars, lexVars, orchVars, txVars, detVars, hookVars, cleanVars, s3Vars, ttsVars, govVars>>

RagIdle == [pc |-> "idle", text |-> <<>>, lang |-> "", embedding |-> <<>>, started |-> 0]

NoRagOutput == [kind |-> "none", entries |-> <<>>, scores |-> <<>>, scanned |-> <<>>,
                query |-> <<>>, error |-> ""]

RagError(e) == [kind |-> "error", entries |-> <<>>, scores |-> <<>>, scanned |-> <<>>,
                query |-> <<>>, error |-> e]

\* retrieveContext(query, languageCode) is called: generateEmbedding looks the
\* text up in the cache and, on a miss, sends the request to the embedding
\* service.
RagBegin ==
    /\ rag.pc = "idle"
    /\ nRag < MaxRagCalls
    /\ nRag' = nRag + 1
    /\ \E text \in Texts, lang \in {"en", "hi"} :
          LET got == CacheGet(cache, HashText(text), now, cacheTTL)
          IN  /\ cache' = got.cache
              /\ IF got.hit
                 THEN /\ rag' = [pc |-> "searching", text |-> text, lang |-> lang,
                                 embedding |-> got.embedding, started |-> now]
                      /\ embedCalls' = embedCalls
                 ELSE /\ rag' = [pc |-> "embedding", text |-> text, lang |-> lang,
                                 embedding |-> <<>>, started |-> now]
                      /\ embedCalls' = embedCalls + 1
              /\ failedTexts' = failedTexts \ {text}
    /\ ragOut' = NoRagOutput
    /\ UNCHANGED <<now, servedAt, notRag>>

\* The embedding service answered: the vector is cached and the scan is sent.
RagEmbedOk ==
    /\ rag.pc = "embedding"
    /\ LET embedding == TitanEmbedding(rag.text)
       IN  /\ cache' = CacheSet(cache, HashText(rag.text), embedding, now, rag.text)
           /\ rag' = [rag EXCEPT !.pc = "searching", !.embedding = embedding,
                                 !.started = now]
    /\ servedAt' = [servedAt EXCEPT ![rag.text] = now]
    /\ UNCHANGED <<now, ragOut, embedCalls, failedTexts, nRag, notRag>>

\* bedrockClient.send rejected: generateEmbedding and retrieveContext throw.
RagEmbedFail ==
    /\ rag.pc = "embedding"
    /\ rag' = RagIdle
    /\ ragOut' = RagError("embedding service error")
    /\ failedTexts' = failedTexts \cup {rag.text}
    /\ UNCHANGED <<now, cache, embedCalls, nRag, servedAt, notRag>>

\* The scan answered: semanticSearch gives the ranked entries, or throws.
RagSearchOk ==
    /\ rag.pc = "searching"
    /\ \E faqs \in ScanResults(rag.lang) :
          LET r == SemanticSearch(rag.embedding, faqs)
          IN  ragOut' = IF r.ok
                        THEN [kind |-> "result", entries |-> r.entries,
                              scores |-> r.scores, scanned |-> faqs,
                              query |-> rag.embedding, error |-> ""]
                        ELSE RagError(r.error)
    /\ rag' = RagIdle
    /\ UNCHANGED <<now, cache, embedCalls, nRag, servedAt, failedTexts, notRag>>

\* docClient.send rejected.
RagSearchFail ==
    /\ rag.pc = "searching"
    /\ rag' = RagIdle
    /\ ragOut' = RagError("scan error")
    /\ UNCHANGED <<now, cache, embedCalls, nRag, servedAt, failedTexts, notRag>>

\* Date.now() moves on.  Neither external call of the retrieval engine is
\* raced against a timer, so the clock moves on under a call in progress.
RagClockAdvance ==
    /\ now + CacheTickMs <= MaxTicks * CacheTickMs
    /\ now' = now + CacheTickMs
    /\ UNCHANGED <<cache, rag, ragOut, embedCalls, nRag, servedAt, failedTexts, notRag>>

-----------------------------------------------------------------------------
(* The voice processor Lambda handler *)

Response(statusCode, success, error) ==
    [statusCode |-> statusCode, success |-> success, error |-> error]

\* handleTranscription: 400 for a missing field, 200 with the result, 503 when
\* the service gave up after its attempts, 500 for any other error.
\* `thrown` is the message of the error transcribeAudio threw, "" if none;
\* `exhausted` says whether that message includes 'failed after'.
HandleTranscriptionReportsSuccess(event, thrown, exhausted) ==
    IF ~event.audioUrl THEN Response(400, FALSE, "Missing audioUrl in event")
    ELSE IF ~event.languageCode THEN Response(400, FALSE, "Missing languageCode in event")
    ELSE IF ~event.userId THEN Response(400, FALSE, "Missing userId in event")
    ELSE Response(200, TRUE, "")

HandleTranscription(event, thrown, exhausted) ==
    IF ~event.audioUrl THEN Response(400, FALSE, "Missing audioUrl in event")
    ELSE IF ~event.languageCode THEN Response(400, FALSE, "Missing languageCode in event")
    ELSE IF ~event.userId THEN Response(400, FALSE, "Missing userId in event")
    ELSE IF thrown = "" THEN Response(200, TRUE, "")
    ELSE IF exhausted
         THEN Response(503, FALSE,
                "Transcription service temporarily unavailable. Please try again later.")
         ELSE Response(500, FALSE, "Transcription failed: " \o thrown)

\* The errors transcribeAudio throws, and whether each includes 'failed after'.
TranscriptionErrors ==
    { [message |-> "Transcription failed after 2 attempts: throttled", exhausted |-> TRUE],
      [message |-> "Transcription job failed: Unknown reason", exhausted |-> FALSE],
      [message |-> "Transcription job timed out after 60 attempts", exhausted |-> FALSE] }

\* handleSynthesis: 400 for a missing field (an empty text is a missing text),
\* 200 with the audio, 500 for any error.
HandleSynthesisReportsSuccess(event, thrown) ==
    IF ~event.text THEN Response(400, FALSE, "Missing text in event")
    ELSE IF ~event.languageCode THEN Response(400, FALSE, "Missing languageCode in event")
    ELSE IF ~event.userId THEN Response(400, FALSE, "Missing userId in event")
    ELSE Response(200, TRUE, "")

HandleSynthesis(event, thrown) ==
    IF ~event.text THEN Response(400, FALSE, "Missing text in event")
    ELSE IF ~event.languageCode THEN Response(400, FALSE, "Missing languageCode in event")
    ELSE IF ~event.userId THEN Response(400, FALSE, "Missing userId in event")
    ELSE IF thrown = "" THEN Response(200, TRUE, "")
    ELSE Response(500, FALSE, "Synthesis failed: " \o thrown)

-----------------------------------------------------------------------------
(* TranscriptionService.transcribeAudio *)

MaxTxCalls == 1

\* DEFAULT_RETRY_CONFIG
maxAttemptsPlusOne == 2 + 1

maxAttempts == 2
initialDelayMs == 1000
backoffMultiplier == 2

\* pollTranscriptionJob(jobName, maxAttempts = 60, pollIntervalMs = 2000)
pollMaxAttempts == 60
pollIntervalMs == 2000

RECURSIVE Pow(_, _)
Pow(b, e) == IF e = 0 THEN 1 ELSE b * Pow(b, e - 1)

\* calculateBackoffDelay(attemptNumber)
CalculateBackoffDelay(attemptNumber) == initialDelayMs * Pow(backoffMultiplier, attemptNumber)

\* What the voice processor leaves alone.
notTx ==
    <<breakerState, chainVars, lexVars, ragVars, orchVars, detVars, hookVars, cleanVars, s3Vars, ttsVars, govVars>>

TxIdle == [pc |-> "idle", lang |-> "", attempt |-> 0, starts |-> <<>>, delay |-> 0,
           poll |-> 0, lastError |-> "", jobName |-> ""]

\* The userId of the event of the model
TheUserId == "user-1"

\* Math.random().toString(36).substring(7) in generateJobName
RandomSuffixes == {"k3f9x", "q8z1m"}

\* generateJobName(userId) at the time timestamp
GenerateJobName(userId, timestamp, random) ==
    "transcription-" \o userId \o "-" \o ToString(timestamp) \o "-" \o random

\* What makes startTranscriptionJob throw: a rejected send, or a response
\* without a job.
StartErrors == {"throttled", "Failed to start transcription job"}

\* job.FailureReason of a FAILED job; "" is none.
FailureReasons == {"", "Unsupported media format", "The media download failed after 3 tries"}

\* message.includes('failed after') for 'Transcription job failed: ' + reason
IncludesFailedAfter(reason) == reason = "The media download failed after 3 tries"

\* job.Transcript.TranscriptFileUri of a COMPLETED job; "" is none.
TranscriptFileUris ==
    {"", "s3://voice-bucket/job.json",
     "https://s3.ap-south-1.amazonaws.com/voice-bucket/job.json"}

\* uri.match(/s3:\/\/([^\/]+)\/(.+)/) on the URIs of the model
MatchesS3Uri(uri) == uri = "s3://voice-bucket/job.json"

\* What the transcript file holds: a transcript, nothing (not JSON), JSON
\* without results, or a transcripts entry without its text.
TranscriptFiles == {"transcript", "empty", "no-results", "no-text"}

NoTxOutput ==
    [kind |-> "none", message |-> "", exhausted |-> FALSE, starts |-> <<>>,
     response |-> Response(0, FALSE, "")]

TheEvent == [audioUrl |-> TRUE, languageCode |-> TRUE, userId |-> TRUE]

\* transcribeAudio threw: handleTranscription's catch turns the error into the
\* response.  `exhausted` says whether the message includes 'failed after'.
TxThrow(message, exhausted) ==
    /\ txOut' = [kind |-> "error", message |-> message, exhausted |-> exhausted,
                 starts |-> tx'.starts,
                 response |-> HandleTranscription(TheEvent, message, exhausted)]

\* handleTranscription -> transcribeAudio(audioUrl, languageCode, userId): the
\* language code and the URL are checked, then the first attempt to start a
\* job is made.
TxBegin ==
    /\ tx.pc = "idle"
    /\ nTx < MaxTxCalls
    /\ nTx' = nTx + 1
    /\ \E lang \in {"hi", "en", "xx"}, url \in {"s3://", "https://bucket.s3.", "http://other"} :
          IF lang \notin LanguageCodes
          THEN /\ tx' = TxIdle
               /\ TxThrow("Unsupported language code: " \o lang, FALSE)
          ELSE IF url = "http://other"
          THEN /\ tx' = TxIdle
               /\ TxThrow("Invalid S3 URL format: " \o url, FALSE)
          ELSE /\ tx' = [TxIdle EXCEPT !.pc = "starting", !.lang = lang, !.starts = <<now>>]
               /\ txOut' = NoTxOutput
    /\ UNCHANGED <<now, notTx>>

\* startTranscriptionJob resolved with the job: polling begins with the first
\* GetTranscriptionJob.  The job has the name generateJobName gave the attempt.
TxStartOk ==
    /\ tx.pc = "starting"
    /\ \E random \in RandomSuffixes :
          tx' = [tx EXCEPT !.pc = "polling", !.poll = 0,
                           !.jobName = GenerateJobName(TheUserId, tx.starts[Len(tx.starts)], random)]
    /\ UNCHANGED <<now, txOut, nTx, notTx>>

\* startTranscriptionJob threw (the send rejected, or the response had no job):
\* sleep before the next attempt unless this was the last one.
TxStartFail ==
    /\ tx.pc = "starting"
    /\ \E e \in StartErrors :
          IF tx.attempt < maxAttempts - 1
          THEN /\ tx' = [tx EXCEPT !.pc = "sleeping", !.lastError = e,
                                   !.delay = CalculateBackoffDelay(tx.attempt)]
               /\ txOut' = txOut
          ELSE /\ tx' = [TxIdle EXCEPT !.starts = tx.starts]
               /\ TxThrow("Transcription failed after " \o ToString(maxAttempts) \o " attempts: " \o e, TRUE)
    /\ UNCHANGED <<now, nTx, notTx>>

\* The backoff sleep is over: the next attempt is made.
TxRetry ==
    /\ tx.pc = "sleeping"
    /\ now' = now + tx.delay
    /\ tx' = [tx EXCEPT !.pc = "starting", !.attempt = @ + 1, !.delay = 0,
                        !.starts = Append(@, now')]
    /\ UNCHANGED <<txOut, nTx, notTx>>

\* One round of pollTranscriptionJob: the GetTranscriptionJob was rejected, or
\* resolved and the job's status is read.  For a COMPLETED job
\* extractTranscriptionResult runs up to its await: it throws for a missing
\* or unusable TranscriptFileUri, or sends the GetObject.
TxPoll ==
    /\ tx.pc = "polling"
    /\ \E status \in {"rejected", "missing", "COMPLETED", "FAILED", "IN_PROGRESS"} :
          CASE status = "rejected" ->
                 /\ tx' = [TxIdle EXCEPT !.starts = tx.starts]
                 /\ TxThrow("ThrottlingException", FALSE)
            [] status = "missing" ->
                 /\ tx' = [TxIdle EXCEPT !.starts = tx.starts]
                 /\ TxThrow("Transcription job not found: " \o tx.jobName, FALSE)
            [] status = "FAILED" ->
                 /\ tx' = [TxIdle EXCEPT !.starts = tx.starts]
                 /\ \E reason \in FailureReasons :
                       TxThrow("Transcription job failed: "
                                  \o (IF reason = "" THEN "Unknown reason" ELSE reason),
                               IncludesFailedAfter(reason))
            [] status = "COMPLETED" ->
                 \E uri \in TranscriptFileUris :
                    IF uri = ""
                    THEN /\ tx' = [TxIdle EXCEPT !.starts = tx.starts]
                         /\ TxThrow("Transcription result URI not found", FALSE)
                    ELSE IF ~MatchesS3Uri(uri)
                    THEN /\ tx' = [TxIdle EXCEPT !.starts = tx.starts]
                         /\ TxThrow("Invalid S3 URI: " \o uri, FALSE)
                    ELSE /\ tx' = [tx EXCEPT !.pc = "downloading"]
                         /\ txOut' = txOut
            [] status = "IN_PROGRESS" ->
                 /\ tx' = [tx EXCEPT !.pc = "poll-sleeping"]
                 /\ txOut' = txOut
    /\ UNCHANGED <<now, nTx, notTx>>

\* The sleep between two polls is over: the next GetTranscriptionJob is sent,
\* unless that was the last round.
TxPollWake ==
    /\ tx.pc = "poll-sleeping"
    /\ now' = now + pollIntervalMs
    /\ IF tx.poll + 1 < pollMaxAttempts
       THEN /\ tx' = [tx EXCEPT !.pc = "polling", !.poll = @ + 1]
            /\ txOut' = txOut
       ELSE /\ tx' = [TxIdle EXCEPT !.starts = tx.starts]
            /\ TxThrow("Transcription job timed out after "
                          \o ToString(pollMaxAttempts) \o " attempts", FALSE)
    /\ UNCHANGED <<nTx, notTx>>

\* downloadTranscriptFile: the GetObject was rejected, or resolved without or
\* with a Body; with a Body the read of the stream begins.
TxDownload ==
    /\ tx.pc = "downloading"
    /\ \E response \in {"rejected", "no-body", "body"} :
          CASE response = "rejected" ->
                 /\ tx' = [TxIdle EXCEPT !.starts = tx.starts]
                 /\ TxThrow("NoSuchKey", FALSE)
            [] response = "no-body" ->
                 /\ tx' = [TxIdle EXCEPT !.starts = tx.starts]
                 /\ TxThrow("Empty response body from S3", FALSE)
            [] response = "body" ->
                 /\ tx' = [tx EXCEPT !.pc = "reading"]
                 /\ txOut' = txOut
    /\ UNCHANGED <<now, nTx, notTx>>

\* transformToString resolved: extractTranscriptionResult parses the file and
\* transcribeAudio returns or throws.  A result without its text makes the
\* handler's own result.text.length throw inside the try, which its catch
\* answers like any other error.
TxRead ==
    /\ tx.pc = "reading"
    /\ tx' = [TxIdle EXCEPT !.starts = tx.starts]
    /\ \E file \in TranscriptFiles :
          CASE file = "transcript" ->
                 txOut' = [kind |-> "result", message |-> "", exhausted |-> FALSE,
                           starts |-> tx.starts,
                           response |-> HandleTranscription(TheEvent, "", FALSE)]
            [] file = "empty" -> TxThrow("Unexpected end of JSON input", FALSE)
            [] file = "no-results" -> TxThrow("No transcription results found", FALSE)
            [] file = "no-text" ->
                 TxThrow("Cannot read properties of undefined (reading 'length')", FALSE)
    /\ UNCHANGED <<now, nTx, notTx>>

-----------------------------------------------------------------------------
(* The language detector *)

MaxDetections == 4
MaxTextLen == 2

\* The handler's config
confidenceThreshold == Frac(85, 100)
consecutiveUsesForPreference == 3

\* [...history, newDetection].slice(-10)
historyKept == 10

\* Object.entries(LANGUAGE_PATTERNS), in order
LanguageOrder == <<"hi", "en", "ta", "te", "bn", "mr", "gu", "kn", "ml", "pa">>

\* A text is its sequence of UTF-16 code units.  The units the texts of the
\* model are made of: Gujarati AA, Devanagari HA and the vowel sign AI, the
\* letters i, s and I, the space and the digit 1.
CodeUnits == {2694, 2361, 2376, 105, 115, 73, 32, 49}

DetectTexts == SeqsUpTo(CodeUnits, MaxTextLen)

\* LANGUAGE_PATTERNS[lang].unicodeRange
InUnicodeRange(lang, u) ==
    CASE lang = "hi" -> u >= 2304 /\ u <= 2431
      [] lang = "en" -> (u >= 97 /\ u <= 122) \/ (u >= 65 /\ u <= 90)
      [] lang = "ta" -> u >= 2944 /\ u <= 3071
      [] lang = "te" -> u >= 3072 /\ u <= 3199
      [] lang = "bn" -> u >= 2432 /\ u <= 2559
      [] lang = "mr" -> u >= 2304 /\ u <= 2431
      [] lang = "gu" -> u >= 2688 /\ u <= 2815
      [] lang = "kn" -> u >= 3200 /\ u <= 3327
      [] lang = "ml" -> u >= 3328 /\ u <= 3455
      [] lang = "pa" -> u >= 2560 /\ u <= 2687

\* LANGUAGE_PATTERNS[lang].commonWords
CommonWords(lang) ==
    CASE lang = "hi" ->
          {<<2361, 2376>>,
           <<2325, 2366>>,
           <<2325, 2368>>,
           <<2325, 2375>>,
           <<2350, 2375, 2306>>,
           <<2360, 2375>>,
           <<2325, 2379>>,
           <<2324, 2352>>,
           <<2351, 2361>>,
           <<2357, 2361>>}
      [] lang = "en" ->
          {<<116, 104, 101>>,
           <<105, 115>>,
           <<97, 114, 101>>,
           <<119, 97, 115>>,
           <<119, 101, 114, 101>>,
           <<105, 110>>,
           <<111, 110>>,
           <<97, 116>>,
           <<116, 111>>,
           <<102, 111, 114>>}
      [] lang = "ta" ->
          {<<2951, 2980, 3009>>,
           <<2949, 2980, 3009>>,
           <<2958, 2985, 3021, 2985>>,
           <<2958, 2986, 3021, 2986, 2975, 3007>>,
           <<2958, 2969, 3021, 2965, 3015>>,
           <<2991, 3006, 2992, 3021>>,
           <<2958, 2986, 3021, 2986, 3019, 2980, 3009>>}
      [] lang = "te" ->
          {<<3079, 3110, 3135>>,
           <<3077, 3110, 3135>>,
           <<3087, 3118, 3135>>,
           <<3086, 3122, 3134>>,
           <<3086, 3093, 3149, 3093, 3105>>,
           <<3086, 3125, 3120, 3137>>,
           <<3086, 3114, 3149, 3114, 3137, 3105, 3137>>}
      [] lang = "bn" ->
          {<<2447, 2439>>,
           <<2488, 2503, 2439>>,
           <<2453, 2495>>,
           <<2453, 2496, 2477, 2494, 2476, 2503>>,
           <<2453, 2507, 2469, 2494, 2479, 2492>>,
           <<2453, 2503>>,
           <<2453, 2454, 2472>>}
      [] lang = "mr" ->
          {<<2361, 2375>>,
           <<2340, 2375>>,
           <<2325, 2366, 2351>>,
           <<2325, 2360, 2375>>,
           <<2325, 2369, 2336, 2375>>,
           <<2325, 2379, 2339>>,
           <<2325, 2375, 2357, 2381, 2361, 2366>>}
      [] lang = "gu" ->
          {<<2694>>,
           <<2724, 2759>>,
           <<2742, 2753, 2690>>,
           <<2709, 2759, 2741, 2752>>,
           <<2709, 2765, 2735, 2750, 2690>>,
           <<2709, 2763, 2723>>,
           <<2709, 2765, 2735, 2750, 2736, 2759>>}
      [] lang = "kn" ->
          {<<3207, 3238, 3265>>,
           <<3205, 3238, 3265>>,
           <<3215, 3240, 3265>>,
           <<3257, 3271, 3223, 3270>>,
           <<3214, 3250, 3277, 3250, 3263>>,
           <<3247, 3262, 3248, 3265>>,
           <<3247, 3262, 3253, 3262, 3223>>}
      [] lang = "ml" ->
          {<<3335, 3364, 3405>>,
           <<3333, 3364, 3405>>,
           <<3342, 3368, 3405, 3364, 3405>>,
           <<3342, 3353, 3405, 3353, 3368, 3398>>,
           <<3342, 3381, 3391, 3359, 3398>>,
           <<3334, 3376, 3405>>,
           <<3342, 3370, 3405, 3370, 3403, 3454>>}
      [] lang = "pa" ->
          {<<2567, 2617>>,
           <<2569, 2617>>,
           <<2581, 2624>>,
           <<2581, 2623, 2613, 2631, 2562>>,
           <<2581, 2623, 2673, 2597, 2631>>,
           <<2581, 2636, 2595>>,
           <<2581, 2598, 2635, 2562>>}

\* toLowerCase, code unit by code unit (the words above have no capitals)
LowerCaseUnits(text) ==
    [i \in 1..Len(text) |-> IF text[i] >= 65 /\ text[i] <= 90 THEN text[i] + 32 ELSE text[i]]

IsSpace(u) == u = 32

\* text.split(/\s+/): a run of spaces separates two words; a text that
\* starts or ends with a space has an empty first or last word.
RECURSIVE SplitFrom(_, _, _, _)
SplitFrom(text, i, words, cur) ==
    IF i > Len(text)
    THEN Append(words, cur)
    ELSE IF IsSpace(text[i])
         THEN IF i > 1 /\ IsSpace(text[i - 1])
              THEN SplitFrom(text, i + 1, words, cur)
              ELSE SplitFrom(text, i + 1, Append(words, cur), <<>>)
         ELSE SplitFrom(text, i + 1, words, Append(cur, text[i]))

SplitOnSpaces(text) == SplitFrom(text, 1, <<>>, <<>>)

\* word.includes(commonWord)
Includes(word, part) ==
    \E i \in 1..(Len(word) - Len(part) + 1) : SubSeq(word, i, i + Len(part) - 1) = part

\* (text.match(pattern.unicodeRange) || []).length: the pattern has no g flag,
\* so the match holds the first matching unit only.
CharMatches(lang, text) ==
    IF \E i \in 1..Len(text) : InUnicodeRange(lang, text[i]) THEN 1 ELSE 0

WordMatches(lang, words) ==
    Cardinality({i \in 1..Len(words) :
        \E cw \in CommonWords(lang) : Includes(words[i], LowerCaseUnits(cw))})

\* analyzeText(text)[lang] =
\*   Math.min(charMatches / text.length, 1) * 0.7
\*   + Math.min(wordMatches / words.length, 1) * 0.3
\* Neither quotient exceeds 1.  For the empty text the first one is 0/0 and
\* the score is NaN, kept as the fraction 0/0, which is greater than nothing.
AnalyzeText(text) ==
    LET words == SplitOnSpaces(LowerCaseUnits(text))
    IN  [lang \in LanguageCodes |->
            Frac(7 * CharMatches(lang, text) * Len(words)
                   + 3 * WordMatches(lang, words) * Len(text),
                 10 * Len(text) * Len(words))]

\* getTopLanguage(scores)
RECURSIVE TopFrom(_, _, _)
TopFrom(scores, i, top) ==
    IF i > Len(LanguageOrder)
    THEN top
    ELSE LET lang == LanguageOrder[i]
         IN  IF FracGT(scores[lang], top.confidence)
             THEN TopFrom(scores, i + 1, [languageCode |-> lang, confidence |-> scores[lang]])
             ELSE TopFrom(scores, i + 1, top)

GetTopLanguage(scores) == TopFrom(scores, 1, [languageCode |-> "hi", confidence |-> Frac(0, 1)])

\* The user's item of the users table.  "" is no preferred language.
NoUser == [exists |-> FALSE, preferredLanguage |-> "", history |-> <<>>]

InitialUsers ==
    {NoUser,
     [exists |-> TRUE, preferredLanguage |-> "", history |-> <<>>],
     [exists |-> TRUE, preferredLanguage |-> "ta", history |-> <<>>]}

\* getUserPreference(userId): the Get is sent; a rejected send is caught.
GetUserPreferenceRethrows(item, sendOk) ==
    IF sendOk
    THEN [threw |-> FALSE, value |-> IF item.exists THEN item.preferredLanguage ELSE ""]
    ELSE [threw |-> TRUE, value |-> ""]

GetUserPreference(item, sendOk) ==
    IF sendOk
    THEN [threw |-> FALSE, value |-> IF item.exists THEN item.preferredLanguage ELSE ""]
    ELSE [threw |-> FALSE, value |-> ""]

LastN(s, n) == IF Len(s) <= n THEN s ELSE SubSeq(s, Len(s) - n + 1, Len(s))

\* updateLanguageHistory between its Get and its Update: the item the Update
\* leaves in the table, given the history that the Get read.
UpdatedItem(item, read, languageCode) ==
    LET updatedHistory == LastN(Append(read, languageCode), historyKept)
        lastThree == LastN(updatedHistory, consecutiveUsesForPreference)
        allSameLanguage ==
            /\ Len(lastThree) = consecutiveUsesForPreference
            /\ \A i \in 1..Len(lastThree) : lastThree[i] = languageCode
    IN  [exists |-> TRUE,
         preferredLanguage |-> IF allSameLanguage THEN languageCode ELSE item.preferredLanguage,
         history |-> updatedHistory]

DetCalls == {1, 2}

DetIdle == [pc |-> "idle", top |-> [languageCode |-> "hi", confidence |-> Frac(0, 1)], read |-> <<>>]

\* What detectLanguage returned or threw, with what the store held and whether
\* its sends resolved.
NoDetResult ==
    [kind |-> "none", languageCode |-> "", confidence |-> Frac(0, 1), source |-> "",
     sendOk |-> TRUE, stored |-> ""]

LanguageResult(languageCode, confidence, source, sendOk) ==
    [kind |-> "result", languageCode |-> languageCode, confidence |-> confidence,
     source |-> source, sendOk |-> sendOk, stored |-> user.preferredLanguage]

\* What the language detector leaves alone.
notDet ==
    <<breakerVars, chainVars, lexVars, ragVars, orchVars, txVars, hookVars, cleanVars, s3Vars, ttsVars, govVars>>

\* One interaction in the history of the model: the language detectLanguage
\* identified ("" when the confidence was low), whether its sends resolved,
\* and the preferred language in the store before and after it.
Interaction(languageCode, sendOk, item) ==
    [identified |-> languageCode, sendOk |-> sendOk, before |-> user.preferredLanguage,
     after |-> item.preferredLanguage]

\* The latest interactions, as many as a run takes.
Latest(log, e) == LastN(Append(log, e), consecutiveUsesForPreference)

\* getTopLanguage(analyzeText(text)) for the texts of the model
TopLanguages == {GetTopLanguage(AnalyzeText(text)) : text \in DetectTexts}

\* detectLanguage(text, userId) up to its first await
DetBegin(d) ==
    /\ det[d].pc = "idle"
    /\ nDet < MaxDetections
    /\ nDet' = nDet + 1
    /\ \E topLanguage \in TopLanguages :
          det' = [det EXCEPT ![d] =
                    [pc |-> IF FracGE(topLanguage.confidence, confidenceThreshold)
                            THEN "history-get" ELSE "preference-get",
                     top |-> topLanguage, read |-> <<>>]]
    /\ detOut' = [detOut EXCEPT ![d] = NoDetResult]
    /\ UNCHANGED <<user, detLog, notDet>>

\* updateLanguageHistory: the Get resolved.
DetHistoryGet(d) ==
    /\ det[d].pc = "history-get"
    /\ det' = [det EXCEPT ![d].pc = "history-update",
                          ![d].read = IF user.exists THEN user.history ELSE <<>>]
    /\ UNCHANGED <<user, detOut, detLog, nDet, notDet>>

\* updateLanguageHistory: the Update resolved; detectLanguage returns.
DetHistoryUpdate(d) ==
    /\ det[d].pc = "history-update"
    /\ user' = UpdatedItem(user, det[d].read, det[d].top.languageCode)
    /\ det' = [det EXCEPT ![d] = DetIdle]
    /\ detOut' = [detOut EXCEPT ![d] =
                    LanguageResult(det[d].top.languageCode, det[d].top.confidence, "detected", TRUE)]
    /\ detLog' = Latest(detLog, Interaction(det[d].top.languageCode, TRUE,
                                            UpdatedItem(user, det[d].read, det[d].top.languageCode)))
    /\ UNCHANGED <<nDet, notDet>>

\* updateLanguageHistory: the Get or the Update was rejected; the catch logs
\* the error and detectLanguage returns.
DetHistoryFail(d) ==
    /\ det[d].pc \in {"history-get", "history-update"}
    /\ det' = [det EXCEPT ![d] = DetIdle]
    /\ detOut' = [detOut EXCEPT ![d] =
                    LanguageResult(det[d].top.languageCode, det[d].top.confidence, "detected", FALSE)]
    /\ detLog' = Latest(detLog, Interaction(det[d].top.languageCode, FALSE, user))
    /\ UNCHANGED <<user, nDet, notDet>>

\* The low-confidence path: getUserPreference, then the preference or Hindi.
DetPreference(d) ==
    /\ det[d].pc = "preference-get"
    /\ det' = [det EXCEPT ![d] = DetIdle]
    /\ \E sendOk \in BOOLEAN :
          LET userPreference == GetUserPreference(user, sendOk)
          IN  /\ detOut' = [detOut EXCEPT ![d] =
                    IF userPreference.threw
                    THEN [NoDetResult EXCEPT !.kind = "error"]
                    ELSE IF userPreference.value # ""
                    THEN LanguageResult(userPreference.value, det[d].top.confidence,
                                        "preference", sendOk)
                    ELSE LanguageResult("hi", det[d].top.confidence, "default", sendOk)]
              /\ detLog' = Latest(detLog, Interaction("", sendOk, user))
    /\ UNCHANGED <<user, nDet, notDet>>

-----------------------------------------------------------------------------
(* The voice bucket *)

\* An object of the bucket: the prefix of its key and the time it was written.
\* The key goes on with the date, the user and a message id; the model keeps
\* one object per prefix and time.  The listing is in key order, which for
\* these keys is the order of the times.
S3Object(prefix, lastModified) == [prefix |-> prefix, lastModified |-> lastModified]

-----------------------------------------------------------------------------
(* TextToSpeechService.synthesizeSpeech *)

MaxSyntheses == 1

\* What the text-to-speech service leaves alone.
notTts ==
    <<breakerVars, chainVars, lexVars, ragVars, orchVars, txVars, detVars, hookVars,
      cleanVars, govVars>>

\* Chunks read from one AudioStream.
MaxChunks == 2

\* `result` is what the last call gave: "" while none has ended, "audio", or
\* the message of the error thrown.  `chunks` is the length of the array the
\* chunks of the AudioStream are pushed to.
TtsIdle == [pc |-> "idle", result |-> "", chunks |-> 0]

TtsEnded(result) == [pc |-> "idle", result |-> result, chunks |-> 0]

\* synthesizeSpeech(text, languageCode, userId) up to its first await: an
\* unsupported language code throws, otherwise the request to Polly is sent.
TtsBegin ==
    /\ tts.pc = "idle"
    /\ nTts < MaxSyntheses
    /\ nTts' = nTts + 1
    /\ \E lang \in {"hi", "xx"} :
          tts' = IF lang \notin LanguageCodes
                 THEN TtsEnded("Unsupported language code: " \o lang)
                 ELSE [pc |-> "synthesizing", result |-> "", chunks |-> 0]
    /\ UNCHANGED <<bucket, notTts>>

\* synthesizeWithPolly: the SynthesizeSpeech send was rejected, or resolved
\* without or with an AudioStream; with one, the first chunk is awaited.
TtsPolly ==
    /\ tts.pc = "synthesizing"
    /\ \E response \in {"rejected", "no-stream", "stream"} :
          tts' = CASE response = "rejected" -> TtsEnded("ThrottlingException")
                   [] response = "no-stream" ->
                        TtsEnded("No audio stream returned from Polly")
                   [] response = "stream" -> [pc |-> "reading", result |-> "", chunks |-> 0]
    /\ UNCHANGED <<nTts, bucket, notTts>>

\* One turn of `for await (const chunk of response.AudioStream)`: a chunk
\* arrived and is pushed, the stream failed and its error is thrown, or the
\* stream ended: the chunks are concatenated, the key is generated and the
\* PutObject of uploadToS3 is sent.
TtsReadChunk ==
    /\ tts.pc = "reading"
    /\ \E next \in {"chunk", "error", "done"} :
          /\ next = "chunk" => tts.chunks < MaxChunks
          /\ tts' = CASE next = "chunk" -> [tts EXCEPT !.chunks = @ + 1]
                      [] next = "error" -> TtsEnded("stream aborted")
                      [] next = "done" -> [tts EXCEPT !.pc = "uploading"]
    /\ UNCHANGED <<nTts, bucket, notTts>>

\* uploadToS3: the PutObjectCommand resolved, and the object is in the voice
\* bucket under output/, or was rejected.
TtsUpload ==
    /\ tts.pc = "uploading"
    /\ \E sendOk \in BOOLEAN :
          IF sendOk
          THEN /\ bucket' = bucket \cup {S3Object("output/", now)}
               /\ tts' = TtsEnded("audio")
          ELSE /\ bucket' = bucket
               /\ tts' = TtsEnded("AccessDenied")
    /\ UNCHANGED <<nTts, notTts>>

-----------------------------------------------------------------------------
(* The WhatsApp webhook handler *)

MaxWebhooks == 2

MAX_AUDIO_SIZE == 16 * 1024 * 1024

SUPPORTED_AUDIO_FORMATS == {"ogg", "mp3", "aac"}

\* What the webhook handler leaves alone.
notHook ==
    <<breakerVars, chainVars, lexVars, ragVars, orchVars, txVars, detVars, cleanVars, ttsVars, govVars>>

\* The request bodies of the model.  `id` stands for the raw text of the body,
\* the other fields for what JSON.parse and processIncomingMessage read in it;
\* `actualSize` is the size in bytes of the voice note the message refers to,
\* which the payload does not carry.
Body(id, json, from, type, mimeType, actualSize) ==
    [id |-> id, json |-> json, from |-> from, type |-> type, mimeType |-> mimeType,
     actualSize |-> actualSize]

Bodies ==
    {Body("", FALSE, "", "", "", 0),
     Body("junk", FALSE, "", "", "", 0),
     Body("text", TRUE, "+919876543210", "text", "", 0),
     Body("text-from-12345", TRUE, "12345", "text", "", 0),
     Body("sticker", TRUE, "+919876543210", "sticker", "", 0),
     Body("voice", TRUE, "+919876543210", "audio", "audio/ogg", 1024),
     Body("voice-wav", TRUE, "+919876543210", "audio", "audio/wav", 1024),
     Body("voice-16MB", TRUE, "+919876543210", "audio", "audio/mpeg", MAX_AUDIO_SIZE),
     Body("voice-17MB", TRUE, "+919876543210", "audio", "AUDIO/OGG", MAX_AUDIO_SIZE + 1)}

Secrets == {"", "k1"}

\* crypto.createHmac('sha256', secret).update(payload).digest('hex'): 64 hex
\* digits that stand for the key and the text they were computed from.
Hmac(secret, payload) == [key |-> secret, text |-> payload, length |-> 64]

\* The x-hub-signature-256 headers of the model: none, the digest of a body
\* under the secret or under another key, with or without the prefix
\* 'sha256=', and a string of another length.
NoSignature == [present |-> FALSE, prefix |-> FALSE, hex |-> Hmac("", "")]

Signatures ==
    {NoSignature}
    \cup {[present |-> TRUE, prefix |-> px, hex |-> Hmac(k, b)] :
            px \in BOOLEAN, k \in {"k1", "k2"}, b \in {body.id : body \in Bodies}}
    \cup {[present |-> TRUE, prefix |-> TRUE, hex |-> [key |-> "k1", text |-> "text", length |-> 10]]}

\* verifySignature(payload, signature, secret)
VerifySignatureLengthOnly(payload, signature, secret) ==
    IF ~signature.present \/ payload = "" \/ secret = ""
    THEN FALSE
    ELSE LET expectedSignature == Hmac(secret, payload)
             providedSignature == signature.hex
         IN  expectedSignature.length = providedSignature.length

VerifySignature(payload, signature, secret) ==
    IF ~signature.present \/ payload = "" \/ secret = ""
    THEN FALSE
    ELSE LET expectedSignature == Hmac(secret, payload)
             providedSignature == signature.hex
         IN  IF expectedSignature.length # providedSignature.length
             THEN FALSE
             ELSE expectedSignature = providedSignature

\* validatePhoneNumber(phoneNumber): /^\+[1-9]\d{1,14}$/ on the numbers of the model
ValidatePhoneNumber(phoneNumber) == phoneNumber = "+919876543210"

\* getAudioFormat(mimeType); "" is null
GetAudioFormat(mimeType) ==
    LET format == CASE mimeType \in {"audio/ogg", "AUDIO/OGG"} -> "ogg"
                    [] mimeType \in {"audio/mpeg", "audio/mp3"} -> "mp3"
                    [] mimeType \in {"audio/aac", "audio/mp4"} -> "aac"
                    [] OTHER -> ""
    IN  IF format \in SUPPORTED_AUDIO_FORMATS THEN format ELSE ""

\* processIncomingMessage builds the AudioContent of an audio message.
AudioContent(message) == [mimeType |-> message.mimeType, size |-> 0]

HookIdle == [pc |-> "idle", event |-> [httpMethod |-> "", signature |-> NoSignature,
                                        secret |-> "", body |-> Body("", FALSE, "", "", "", 0)]]

StatusOf(statusCode, event) == [statusCode |-> statusCode, event |-> event]

\* handler(event) up to its first await: the answer it gives at once, or 0
\* and the send it waits for.
HandlerStart(event) ==
    IF event.httpMethod = "GET"
    THEN [statusCode |-> IF event.verified THEN 200 ELSE 403, pc |-> "idle"]
    ELSE IF event.httpMethod # "POST"
    THEN [statusCode |-> 400, pc |-> "idle"]
    ELSE IF ~VerifySignature(event.body.id, event.signature, event.secret)
    THEN [statusCode |-> 401, pc |-> "idle"]
    ELSE IF ~event.body.json
    THEN [statusCode |-> 500, pc |-> "idle"]
    ELSE IF ~ValidatePhoneNumber(event.body.from)
    THEN [statusCode |-> 500, pc |-> "idle"]
    ELSE IF event.body.type = "text"
    THEN [statusCode |-> 0, pc |-> "forwarding"]
    ELSE IF event.body.type = "audio"
    THEN LET audioContent == AudioContent(event.body)
         IN  IF GetAudioFormat(audioContent.mimeType) = ""
             THEN [statusCode |-> 500, pc |-> "idle"]
             ELSE IF audioContent.size > MAX_AUDIO_SIZE
             THEN [statusCode |-> 500, pc |-> "idle"]
             ELSE [statusCode |-> 0, pc |-> "storing"]
    ELSE [statusCode |-> 500, pc |-> "idle"]

HookEvents ==
    [httpMethod : {"GET", "POST", "PUT"}, verified : BOOLEAN, signature : Signatures,
     secret : Secrets, body : Bodies]

\* The handler is invoked with the event.
HandlerInvoked(event) ==
    /\ hook.pc = "idle"
    /\ nHook < MaxWebhooks
    /\ nHook' = nHook + 1
    /\ LET start == HandlerStart(event)
       IN  /\ hook' = [pc |-> start.pc, event |-> event]
           /\ hookOut' = StatusOf(start.statusCode, event)
    /\ UNCHANGED <<s3Log, invokeLog, bucket, notHook>>

\* The handler is invoked with an event of the model.
HookReceive ==
    \E event \in HookEvents :
       /\ event.httpMethod = "GET" =>
             event.signature = NoSignature /\ event.body.id = "" /\ event.secret = "k1"
       /\ event.httpMethod = "POST" => ~event.verified
       /\ event.httpMethod = "PUT" =>
             ~event.verified /\ event.signature = NoSignature /\ event.body.id = ""
             /\ event.secret = "k1"
       /\ HandlerInvoked(event)

\* storeAudioInS3: the PutObjectCommand resolved, and the object is in the
\* voice bucket under input/, or was rejected.
HookStore ==
    /\ hook.pc = "storing"
    /\ \E sendOk \in BOOLEAN :
          IF sendOk
          THEN /\ s3Log' = Append(s3Log, hook.event)
               /\ bucket' = bucket \cup {S3Object("input/", now)}
               /\ hook' = [hook EXCEPT !.pc = "forwarding"]
               /\ hookOut' = hookOut
          ELSE /\ s3Log' = s3Log
               /\ bucket' = bucket
               /\ hook' = [hook EXCEPT !.pc = "idle"]
               /\ hookOut' = StatusOf(500, hook.event)
    /\ UNCHANGED <<invokeLog, nHook, notHook>>

\* forwardToOrchestrator: the InvokeCommand resolved or was rejected.
HookForward ==
    /\ hook.pc = "forwarding"
    /\ hook' = [hook EXCEPT !.pc = "idle"]
    /\ \E sendOk \in BOOLEAN :
          IF sendOk
          THEN /\ invokeLog' = Append(invokeLog, hook.event)
               /\ hookOut' = StatusOf(200, hook.event)
          ELSE /\ invokeLog' = invokeLog
               /\ hookOut' = StatusOf(500, hook.event)
    /\ UNCHANGED <<s3Log, nHook, bucket, notHook>>

-----------------------------------------------------------------------------
(* The audio cleanup service *)

MaxCleanupRuns == 1
MaxCleanupTicks == 3

INPUT_PREFIX == "input/"
OUTPUT_PREFIX == "output/"
INPUT_EXPIRY_HOURS == 24
OUTPUT_EXPIRY_HOURS == 48

\* How many objects one ListObjectsV2 response of the model holds.
ListPageSize == 1

\* The steps of the clock of the model: a millisecond and a day.
OneDayMs == 24 * 60 * 60 * 1000
CleanupTicksMs == {1, OneDayMs}

\* What the cleanup service leaves alone.
notClean ==
    <<breakerState, chainVars, lexVars, ragVars, orchVars, txVars, detVars, hookVars,
      ttsVars, govVars>>

\* listResponse.Contents.filter(...): fileAge > expiryMs
IsExpiredOrAtLimit(obj, nowMs, expiryHours) ==
    nowMs - obj.lastModified >= expiryHours * 60 * 60 * 1000

IsExpired(obj, nowMs, expiryHours) ==
    nowMs - obj.lastModified > expiryHours * 60 * 60 * 1000

ExpiryHoursOf(prefix) == IF prefix = INPUT_PREFIX THEN INPUT_EXPIRY_HOURS ELSE OUTPUT_EXPIRY_HOURS

NoToken == -1

\* The objects of the prefix after the continuation token, in key order
Remaining(objects, prefix, token) ==
    {o \in objects : o.prefix = prefix /\ o.lastModified > token}

\* ListObjectsV2: the first ListPageSize of them
RECURSIVE FirstOf(_, _)
FirstOf(objects, n) ==
    IF n = 0 \/ objects = {}
    THEN {}
    ELSE LET first == CHOOSE o \in objects : \A p \in objects : o.lastModified <= p.lastModified
         IN  {first} \cup FirstOf(objects \ {first}, n - 1)

\* NextContinuationToken of a response with these Contents
NextToken(objects, prefix, token, contents) ==
    IF Remaining(objects, prefix, token) \ contents = {}
    THEN NoToken
    ELSE CHOOSE t \in {o.lastModified : o \in contents} : \A o \in contents : o.lastModified <= t

CleanIdle == [pc |-> "idle", prefix |-> "", now |-> 0, token |-> NoToken, batch |-> {},
              next |-> NoToken]

NoCleanupRun == [status |-> "none", listed |-> {}, requested |-> {}, removed |-> {}]

\* An object with the time Date.now() gave the run that saw it
Seen(objects, at) == {[obj |-> o, at |-> at] : o \in objects}

\* cleanupFilesInPrefix is over for the prefix: the next prefix, or the result.
AfterPrefix(run) ==
    IF run.prefix = INPUT_PREFIX
    THEN /\ clean' = [CleanIdle EXCEPT !.pc = "list", !.prefix = OUTPUT_PREFIX, !.now = now]
         /\ cleanLog' = [cleanLog EXCEPT !.listed = run.listed, !.requested = run.requested,
                                         !.removed = run.removed]
    ELSE /\ clean' = CleanIdle
         /\ cleanLog' = [status |-> "done", listed |-> run.listed, requested |-> run.requested,
                         removed |-> run.removed]

\* The do-while loop of cleanupFilesInPrefix goes round or ends.
AfterPage(run, token) ==
    IF token # NoToken
    THEN /\ clean' = [clean EXCEPT !.pc = "list", !.token = token, !.batch = {}, !.next = NoToken]
         /\ cleanLog' = [cleanLog EXCEPT !.listed = run.listed, !.requested = run.requested,
                                         !.removed = run.removed]
    ELSE AfterPrefix(run)

\* A send was rejected: cleanupFilesInPrefix rethrows, cleanupExpiredFiles
\* puts the message in result.errors and returns.
CleanupThrows(run) ==
    /\ clean' = CleanIdle
    /\ cleanLog' = [status |-> "error", listed |-> run.listed, requested |-> run.requested,
                    removed |-> run.removed]

\* The scheduled handler starts cleanupExpiredFiles with the input prefix.
CleanupBegin ==
    /\ clean.pc = "idle"
    /\ nClean < MaxCleanupRuns
    /\ nClean' = nClean + 1
    /\ clean' = [CleanIdle EXCEPT !.pc = "list", !.prefix = INPUT_PREFIX, !.now = now]
    /\ cleanLog' = [NoCleanupRun EXCEPT !.status = "running"]
    /\ UNCHANGED <<now, bucket, nCleanTick, notClean>>

\* The ListObjectsV2Command resolved or was rejected.
CleanupList ==
    /\ clean.pc = "list"
    /\ \E sendOk \in BOOLEAN :
          IF ~sendOk
          THEN CleanupThrows([prefix |-> clean.prefix, listed |-> cleanLog.listed,
                              requested |-> cleanLog.requested, removed |-> cleanLog.removed])
          ELSE LET contents == FirstOf(Remaining(bucket, clean.prefix, clean.token), ListPageSize)
                   token == NextToken(bucket, clean.prefix, clean.token, contents)
                   expiredFiles == {o \in contents :
                                      IsExpired(o, clean.now, ExpiryHoursOf(clean.prefix))}
                   run == [prefix |-> clean.prefix,
                           listed |-> cleanLog.listed \cup Seen(contents, clean.now),
                           requested |-> cleanLog.requested, removed |-> cleanLog.removed]
               IN  IF contents = {}
                   THEN AfterPrefix(run)
                   ELSE IF expiredFiles # {}
                   THEN /\ clean' = [clean EXCEPT !.pc = "delete", !.batch = expiredFiles,
                                                  !.next = token]
                        /\ cleanLog' = [cleanLog EXCEPT !.listed = run.listed]
                   ELSE AfterPage(run, token)
    /\ UNCHANGED <<now, bucket, nClean, nCleanTick, notClean>>

\* The DeleteObjectsCommand was rejected, or resolved: S3 deleted the keys of
\* the request except those it reports in Errors, which the code does not
\* read.
CleanupDelete ==
    /\ clean.pc = "delete"
    /\ \E sendOk \in BOOLEAN, failed \in SUBSET clean.batch :
          LET deleted == IF sendOk THEN clean.batch \ failed ELSE {}
              run == [prefix |-> clean.prefix, listed |-> cleanLog.listed,
                      requested |-> cleanLog.requested \cup Seen(clean.batch, clean.now),
                      removed |-> cleanLog.removed \cup Seen(deleted \cap bucket, now)]
          IN  /\ ~sendOk => failed = {}
              /\ bucket' = bucket \ deleted
              /\ IF sendOk THEN AfterPage(run, clean.next) ELSE CleanupThrows(run)
    /\ UNCHANGED <<now, nClean, nCleanTick, notClean>>

CleanupClockAdvance ==
    /\ nCleanTick < MaxCleanupTicks
    /\ nCleanTick' = nCleanTick + 1
    /\ \E d \in CleanupTicksMs : now' = now + d
    /\ UNCHANGED <<bucket, clean, cleanLog, nClean, notClean>>

-----------------------------------------------------------------------------
(* AIEngine.queryGovernmentAPI *)

MaxGovCalls == 3
MaxGovTicks == 3

\* this.config.governmentApiTimeout in the handler's config
governmentApiTimeout == 2000

\* How long an entry of governmentApiCache is served without a call
governmentCacheMs == 86400000

\* The steps of the clock of the model: a second and a day.
GovTicksMs == {1000, governmentCacheMs}

\* cacheKey = `${apiName}:${JSON.stringify(params)}` for the requests of the model
GovKeys == {"pm-kisan:{}", "ration-card:{}"}

\* The APIs the secret has a configuration for
ConfiguredApis == {"pm-kisan:{}"}

\* What an API answers, at different times
GovData == {"data-1", "data-2"}

NoGovEntry == [present |-> FALSE, data |-> "", timestamp |-> 0]

GovIdle == [pc |-> "idle", key |-> "", cached |-> NoGovEntry, started |-> 0]

NoGovOutput == [kind |-> "none", data |-> "", error |-> "", stale |-> FALSE]

\* What queryGovernmentAPI leaves alone.
notGov ==
    <<breakerState, chainVars, lexVars, ragVars, orchVars, txVars, detVars, hookVars, cleanVars, s3Vars, ttsVars>>

\* The catch of queryGovernmentAPI: the entry read at the start of the call
\* if there was one, or else the error again.
GovCatch(cached, error) ==
    IF cached.present
    THEN [kind |-> "data", data |-> cached.data, error |-> error, stale |-> TRUE]
    ELSE [kind |-> "error", data |-> "", error |-> error, stale |-> FALSE]

\* queryGovernmentAPI(apiName, params) up to its first await
GovBegin ==
    /\ gov.pc = "idle"
    /\ nGov < MaxGovCalls
    /\ nGov' = nGov + 1
    /\ \E key \in GovKeys :
          LET cached == govCache[key]
          IN  IF cached.present /\ now - cached.timestamp < governmentCacheMs
              THEN /\ gov' = GovIdle
                   /\ govOut' = [kind |-> "data", data |-> cached.data, error |-> "",
                                 stale |-> FALSE]
              ELSE /\ gov' = [pc |-> "credentials", key |-> key, cached |-> cached,
                              started |-> 0]
                   /\ govOut' = NoGovOutput
    /\ UNCHANGED <<now, govCache, nGovTick, notGov>>

\* getGovernmentApiCredentials resolved, with or without a configuration for
\* the API, or was rejected.  With a configuration the call is made and the
\* timer is started.
GovCredentials ==
    /\ gov.pc = "credentials"
    /\ \E sendOk \in BOOLEAN :
          IF ~sendOk
          THEN /\ gov' = GovIdle
               /\ govOut' = GovCatch(gov.cached, "Secret value not found")
          ELSE IF gov.key \notin ConfiguredApis
          THEN /\ gov' = GovIdle
               /\ govOut' = GovCatch(gov.cached, "API configuration not found")
          ELSE /\ gov' = [gov EXCEPT !.pc = "calling", !.started = now]
               /\ govOut' = govOut
    /\ UNCHANGED <<now, govCache, nGov, nGovTick, notGov>>

\* callGovernmentAPI resolved before the timer's callback ran: Promise.race
\* settles with whichever settles first, however late the API's answer is.
GovApiResolves ==
    /\ gov.pc = "calling"
    /\ \E data \in GovData :
          /\ govCache' = [govCache EXCEPT ![gov.key] =
                            [present |-> TRUE, data |-> data, timestamp |-> now]]
          /\ govOut' = [kind |-> "data", data |-> data, error |-> "", stale |-> FALSE]
    /\ gov' = GovIdle
    /\ UNCHANGED <<now, nGov, nGovTick, notGov>>

\* callGovernmentAPI was rejected before the timer's callback ran.
GovApiRejects ==
    /\ gov.pc = "calling"
    /\ gov' = GovIdle
    /\ govOut' = GovCatch(gov.cached, "API request failed")
    /\ UNCHANGED <<now, govCache, nGov, nGovTick, notGov>>

\* The timer's callback ran first, governmentApiTimeout or more after the
\* timer was set.
GovTimeout ==
    /\ gov.pc = "calling"
    /\ now - gov.started >= governmentApiTimeout
    /\ gov' = GovIdle
    /\ govOut' = GovCatch(gov.cached, "Government API timeout")
    /\ UNCHANGED <<now, govCache, nGov, nGovTick, notGov>>

GovClockAdvance ==
    /\ nGovTick < MaxGovTicks
    /\ nGovTick' = nGovTick + 1
    /\ \E d \in GovTicksMs : now' = now + d
    /\ UNCHANGED <<govCache, gov, govOut, nGov, notGov>>

-----------------------------------------------------------------------------
(* The request orchestrator *)

MaxOrchRequests == 2

\* The orchestrator handler's config
maxDeliveryRetriesPlusOne == 3 + 1

maxDeliveryRetries == 3
retryIntervalMs == 5000

\* The clock advances in steps of half a retry interval.
RetryTickMs == retryIntervalMs \div 2

\* componentTimeouts.voiceProcessor, the longest timeout the orchestrator's
\* config gives a component
voiceProcessorTimeout == 30000

\* received -> (transcribing) -> language_detecting -> resolving ->
\* (synthesizing) -> delivering -> {delivered | failed}
StageIndex(st) ==
    CASE st = "received" -> 1
      [] st = "transcribing" -> 2
      [] st = "language_detecting" -> 3
      [] st = "resolving" -> 4
      [] st = "synthesizing" -> 5
      [] st = "delivering" -> 6
      [] st \in {"delivered", "failed"} -> 7

\* What the orchestrator leaves alone.
notOrch ==
    <<breakerState, chainVars, lexVars, ragVars, txVars, detVars, hookVars, cleanVars, s3Vars, ttsVars, govVars>>

NoOrch ==
    [stage |-> "idle", kind |-> "", voiceEnabled |-> FALSE, query |-> <<>>,
     lang |-> "", text |-> NoText, mode |-> "none", notice |-> "", audio |-> FALSE,
     portion |-> "", tries |-> 0, lastTry |-> 0, status |-> "none", reported |-> FALSE,
     detectCalls |-> 0, chainCalls |-> 0, transcription |-> "", synthesisFailed |-> FALSE]

\* The stage that follows the stage the request is in (§4.5): transcribing only
\* for voice input, synthesizing only when the voice reply is enabled.
NextStageAlwaysTranscribes(o) ==
    CASE o.stage = "received" -> "transcribing"
      [] o.stage = "transcribing" ->
           IF o.notice = "resend-or-type" THEN "delivering" ELSE "language_detecting"
      [] o.stage = "language_detecting" -> "resolving"
      [] o.stage = "resolving" -> IF o.voiceEnabled THEN "synthesizing" ELSE "delivering"
      [] o.stage = "synthesizing" -> "delivering"
      [] OTHER -> "none"

NextStage(o) ==
    CASE o.stage = "received" ->
           IF o.kind = "voice" THEN "transcribing" ELSE "language_detecting"
      [] o.stage = "transcribing" ->
           IF o.notice = "resend-or-type" THEN "delivering" ELSE "language_detecting"
      [] o.stage = "language_detecting" -> "resolving"
      [] o.stage = "resolving" -> IF o.voiceEnabled THEN "synthesizing" ELSE "delivering"
      [] o.stage = "synthesizing" -> "delivering"
      [] OTHER -> "none"

\* What the fallback chain returns for a query (§4.2), given what
\* generateResponse gave and whether the retrieval and the store read worked.
ResolveChain(query, lang, o, retrievalOk, storeOk) ==
    LET r == SearchFAQs(query, lang, FetchFAQs(lang))
    IN  IF retrievalOk /\ ModelAccepted(o)
        THEN Result(o.text, o.mode, o.confidence)
        ELSE IF storeOk /\ LexicalAccepted(r)
             THEN Result(r.match.answer, "offline", r.score)
             ELSE Result(GetDefaultResponse(lang), "offline", Frac(0, 1))

\* The message of a failed transcription, in the language the user is
\* addressed in when none was detected.
ResendOrTypeMessage(lang) == "please-resend-or-type-" \o lang

\* What a failed synthesis leaves of the response: the text alone.
SynthesisFailureDegrades(o) == [o EXCEPT !.stage = "synthesizing", !.audio = FALSE]

\* The portion of the response that is sent first.
FirstPortionVoice(o) == IF o.audio THEN "voice" ELSE "text"

FirstPortion(o) == "text"

\* A request arrives.
OrchReceive ==
    /\ orch.stage \in {"idle", "done"}
    /\ nOrch < MaxOrchRequests
    /\ nOrch' = nOrch + 1
    /\ \E kind \in {"text", "voice"}, voiceEnabled \in BOOLEAN :
          orch' = [NoOrch EXCEPT !.stage = "received", !.kind = kind,
                                 !.voiceEnabled = voiceEnabled]
    /\ stageLog' = <<"received">>
    /\ sendLog' = <<>>
    /\ UNCHANGED <<now, notOrch>>

\* Transcribing: the voice processor is invoked with action 'transcribe'.  A
\* response other than 200 ends the request's processing: the user is told to
\* resend or type, and that message goes to delivery.
OrchTranscribe ==
    /\ NextStage(orch) = "transcribing"
    /\ stageLog' = Append(stageLog, "transcribing")
    /\ \E e \in TranscriptionErrors \cup {[message |-> "", exhausted |-> FALSE]} :
          LET resp == HandleTranscription(
                          [audioUrl |-> TRUE, languageCode |-> TRUE, userId |-> TRUE],
                          e.message, e.exhausted)
              how  == IF e.message = "" THEN "ok"
                      ELSE IF e.exhausted THEN "exhausted" ELSE "error"
          IN  IF resp.statusCode = 200
              THEN orch' = [orch EXCEPT !.stage = "transcribing", !.transcription = how]
              ELSE \E l \in {"hi", "en"} :
                      orch' = [orch EXCEPT !.stage = "transcribing",
                                           !.transcription = how,
                                           !.notice = "resend-or-type",
                                           !.text = ResendOrTypeMessage(l),
                                           !.lang = l]
    /\ UNCHANGED <<now, sendLog, nOrch, notOrch>>

\* Language detecting.
OrchDetectLanguage ==
    /\ NextStage(orch) = "language_detecting"
    /\ stageLog' = Append(stageLog, "language_detecting")
    /\ \E r \in Requests :
          orch' = [orch EXCEPT !.stage = "language_detecting", !.query = r.query,
                               !.lang = r.lang, !.detectCalls = @ + 1]
    /\ UNCHANGED <<now, sendLog, nOrch, notOrch>>

\* Resolving: the fallback chain.
OrchResolve ==
    /\ NextStage(orch) = "resolving"
    /\ stageLog' = Append(stageLog, "resolving")
    /\ \E o \in {GenerateResponse(Resolved(InvokeBedrock)),
                 GenerateResponse(Thrown("Circuit breaker is open")),
                 GenerateResponse(Thrown("Bedrock invocation timeout"))},
          retrievalOk \in BOOLEAN, storeOk \in BOOLEAN :
          LET r == ResolveChain(orch.query, orch.lang, o, retrievalOk, storeOk)
          IN  orch' = [orch EXCEPT !.stage = "resolving", !.text = r.text,
                                   !.mode = r.mode, !.chainCalls = @ + 1]
    /\ UNCHANGED <<now, sendLog, nOrch, notOrch>>

\* Synthesizing: the voice processor is invoked with action 'synthesize'.  A
\* response other than 200, or the stage's timeout, leaves the text alone.
OrchSynthesize ==
    /\ NextStage(orch) = "synthesizing"
    /\ \E thrown \in {"", "Polly error"}, timedOut \in BOOLEAN :
          LET resp == HandleSynthesis(
                          [text |-> orch.text # "", languageCode |-> TRUE, userId |-> TRUE],
                          thrown)
              failed == thrown # "" \/ timedOut \/ orch.text = ""
              o == [orch EXCEPT !.synthesisFailed = failed]
          IN  IF resp.statusCode = 200 /\ ~timedOut
              THEN orch' = [o EXCEPT !.stage = "synthesizing", !.audio = TRUE]
              ELSE orch' = SynthesisFailureDegrades(o)
    /\ stageLog' = Append(stageLog, "synthesizing")
    /\ UNCHANGED <<now, sendLog, nOrch, notOrch>>

\* Delivering: one send attempt.  The first attempt of a portion is made at
\* once, a retry retryIntervalMs after the failed attempt; the text portion
\* goes first, the voice portion after it; the maxDeliveryRetries-th failed
\* attempt of a portion fails the request, which is reported.
OrchSend ==
    /\ \/ NextStage(orch) = "delivering"
       \/ orch.stage = "delivering" /\ (orch.tries = 0 \/ now - orch.lastTry >= retryIntervalMs)
    /\ LET portion == IF orch.stage = "delivering" THEN orch.portion ELSE FirstPortion(orch)
           other   == IF portion = "text" THEN "voice" ELSE "text"
           sent    == {sendLog[i].portion : i \in {j \in 1..Len(sendLog) : sendLog[j].ok}}
       IN  \E ok \in BOOLEAN :
              /\ sendLog' = Append(sendLog, [portion |-> portion, time |-> now, ok |-> ok])
              /\ IF ok
                 THEN IF orch.audio /\ other \notin sent
                      THEN orch' = [orch EXCEPT !.stage = "delivering", !.portion = other,
                                                !.tries = 0, !.lastTry = now]
                      ELSE orch' = [orch EXCEPT !.stage = "done", !.portion = portion,
                                                !.status = "delivered", !.lastTry = now]
                 ELSE IF orch.tries + 1 >= maxDeliveryRetries
                      THEN orch' = [orch EXCEPT !.stage = "done", !.portion = portion,
                                                !.tries = @ + 1, !.lastTry = now,
                                                !.status = "failed", !.reported = TRUE]
                      ELSE orch' = [orch EXCEPT !.stage = "delivering", !.portion = portion,
                                                !.tries = @ + 1, !.lastTry = now]
    /\ stageLog' = LET entered == IF orch.stage = "delivering"
                                   THEN stageLog
                                   ELSE Append(stageLog, "delivering")
                   IN  IF orch'.stage = "done"
                       THEN Append(entered, orch'.status)
                       ELSE entered
    /\ UNCHANGED <<now, nOrch, notOrch>>

\* Date.now() moves on.
OrchClockAdvance ==
    /\ now + RetryTickMs <= MaxTicks * RetryTickMs
    /\ now' = now + RetryTickMs
    /\ UNCHANGED <<orchVars, notOrch>>

-----------------------------------------------------------------------------
(* Specifications *)

Init ==
    /\ cfg \in Configs
    /\ failures = <<>>
    /\ state = "closed"
    /\ lastOpenTime = 0
    /\ now = 0
    /\ calls = [c \in Callers |-> Idle]
    /\ outcome = [c \in Callers |-> NoOutcome]
    /\ invoked = 0
    /\ nCalls = 0
    /\ failLog = <<>>
    /\ lastEvent = "none"
    /\ req = NoRequest
    /\ ctx = NoContext
    /\ attempts = <<>>
    /\ results = <<>>
    /\ modeSets = 0
    /\ trial = NoTrial
    /\ nReq = 0
    /\ lexIn = NoLexInput
    /\ lexOut = NoLexOutput
    /\ cache = [k \in CacheKeys |-> NoEntry]
    /\ rag = RagIdle
    /\ ragOut = NoRagOutput
    /\ embedCalls = 0
    /\ servedAt = [t \in Texts |-> -1]
    /\ failedTexts = {}
    /\ nRag = 0
    /\ orch = NoOrch
    /\ stageLog = <<>>
    /\ sendLog = <<>>
    /\ nOrch = 0
    /\ tx = TxIdle
    /\ txOut = NoTxOutput
    /\ nTx = 0
    /\ user \in InitialUsers
    /\ det = [d \in DetCalls |-> DetIdle]
    /\ detOut = [d \in DetCalls |-> NoDetResult]
    /\ detLog = <<>>
    /\ nDet = 0
    /\ hook = HookIdle
    /\ hookOut = StatusOf(0, HookIdle.event)
    /\ s3Log = <<>>
    /\ invokeLog = <<>>
    /\ nHook = 0
    /\ bucket = {}
    /\ clean = CleanIdle
    /\ cleanLog = NoCleanupRun
    /\ nClean = 0
    /\ tts = TtsIdle
    /\ nTts = 0
    /\ nCleanTick = 0
    /\ govCache = [key \in GovKeys |-> NoGovEntry]
    /\ gov = GovIdle
    /\ govOut = NoGovOutput
    /\ nGov = 0
    /\ nGovTick = 0

Tick == ClockAdvance /\ UNCHANGED <<chainVars, extVars>>

\* The orchestrator resolves one request at a time through the chain.
Next ==
    \/ ChainStart
    \/ ChainRetrieve
    \/ ChainInfer
    \/ ChainInferOk
    \/ ChainInferFail
    \/ ChainLexical
    \/ ChainDefault
    \/ Tick

\* The chain is run against breakers with the short windows.
InitChain == Init /\ cfg \in ShortConfigs /\ user = NoUser

Spec == InitChain /\ [][Next]_vars

\* The AI Engine Lambda handler: generateResponse(event), one event at a time.
SeqBegin == NoneInFlight /\ CallBegin(1) /\ UNCHANGED <<chainVars, extVars>>
SeqSucceed == CallSucceed(1) /\ UNCHANGED <<chainVars, extVars>>
SeqFail == CallFail(1) /\ UNCHANGED <<chainVars, extVars>>

NextSeq == SeqBegin \/ SeqSucceed \/ SeqFail \/ Tick

InitEngine == Init /\ user = NoUser

SpecSeq == InitEngine /\ [][NextSeq]_vars

\* Callers that share one AIEngine and whose calls overlap.
ConcBegin == \E c \in Callers : CallBegin(c) /\ UNCHANGED <<chainVars, extVars>>
ConcSucceed == \E c \in Callers : CallSucceed(c) /\ UNCHANGED <<chainVars, extVars>>
ConcFail == \E c \in Callers : CallFail(c) /\ UNCHANGED <<chainVars, extVars>>

NextConc == ConcBegin \/ ConcSucceed \/ ConcFail \/ Tick

SpecConc == InitEngine /\ [][NextConc]_vars

\* The other components are run beside an AI engine with the deployed config.
InitDeployed == InitEngine /\ cfg = DeployedConfig

\* The FAQ Engine Lambda handler: searchFAQs(query, languageCode).
NextLex ==
    \/ LexBegin
    \/ LexScanOk
    \/ LexScanFail

SpecLex == InitDeployed /\ [][NextLex]_vars

\* The RAG System Lambda handler: retrieveContext(query, languageCode), one
\* event at a time.
NextRag ==
    \/ RagBegin
    \/ RagEmbedOk
    \/ RagEmbedFail
    \/ RagSearchOk
    \/ RagSearchFail
    \/ RagClockAdvance

SpecRag == InitDeployed /\ [][NextRag]_vars

\* The Request Orchestrator Lambda handler: processRequest(event), one event
\* at a time.
NextOrch ==
    \/ OrchReceive
    \/ OrchTranscribe
    \/ OrchDetectLanguage
    \/ OrchResolve
    \/ OrchSynthesize
    \/ OrchSend
    \/ OrchClockAdvance

SpecOrch == InitDeployed /\ [][NextOrch]_vars

\* The Voice Processor Lambda handler: action 'transcribe', one event at a time.
NextTx ==
    \/ TxBegin
    \/ TxStartOk
    \/ TxStartFail
    \/ TxRetry
    \/ TxPoll
    \/ TxPollWake
    \/ TxDownload
    \/ TxRead

SpecTx == InitDeployed /\ [][NextTx]_vars

\* The language detector, one detectLanguage call at a time.
NoDetectionInFlight == \A d \in DetCalls : det[d].pc = "idle"

DetSeqBegin == NoDetectionInFlight /\ DetBegin(1)
DetSeqHistoryGet == DetHistoryGet(1)
DetSeqHistoryUpdate == DetHistoryUpdate(1)
DetSeqHistoryFail == DetHistoryFail(1)
DetSeqPreference == DetPreference(1)

NextDetSeq ==
    \/ DetSeqBegin
    \/ DetSeqHistoryGet
    \/ DetSeqHistoryUpdate
    \/ DetSeqHistoryFail
    \/ DetSeqPreference

InitDet == Init /\ cfg = DeployedConfig

SpecDetSeq == InitDet /\ [][NextDetSeq]_vars

\* The language detector with detectLanguage calls that overlap: each await
\* of a call is a point where the other call may run.
DetConcBegin == \E d \in DetCalls : DetBegin(d)
DetConcHistoryGet == \E d \in DetCalls : DetHistoryGet(d)
DetConcHistoryUpdate == \E d \in DetCalls : DetHistoryUpdate(d)
DetConcHistoryFail == \E d \in DetCalls : DetHistoryFail(d)
DetConcPreference == \E d \in DetCalls : DetPreference(d)

NextDetConc ==
    \/ DetConcBegin
    \/ DetConcHistoryGet
    \/ DetConcHistoryUpdate
    \/ DetConcHistoryFail
    \/ DetConcPreference

SpecDetConc == InitDet /\ [][NextDetConc]_vars

\* The WhatsApp webhook Lambda, one event at a time.
NextHook ==
    \/ HookReceive
    \/ HookStore
    \/ HookForward

SpecHook == InitDeployed /\ [][NextHook]_vars

\* The scheduled cleanup Lambda beside the services that write voice files.
\* The webhook events of this specification are signed voice notes.
VoiceNote ==
    [httpMethod |-> "POST", verified |-> FALSE,
     signature |-> [present |-> TRUE, prefix |-> TRUE, hex |-> Hmac("k1", "voice")],
     secret |-> "k1",
     body |-> Body("voice", TRUE, "+919876543210", "audio", "audio/ogg", 1024)]

\* Voice notes received while the cleanup runs.
MaxVoiceNotes == 1

VoiceNoteReceive ==
    /\ nHook < MaxVoiceNotes
    /\ HandlerInvoked(VoiceNote)

NextCleanup ==
    \/ CleanupBegin
    \/ CleanupList
    \/ CleanupDelete
    \/ CleanupClockAdvance
    \/ VoiceNoteReceive
    \/ HookStore
    \/ HookForward
    \/ TtsBegin
    \/ TtsPolly
    \/ TtsReadChunk
    \/ TtsUpload

SpecCleanup == InitDeployed /\ [][NextCleanup]_vars

\* One AI engine answering queryGovernmentAPI calls, one at a time.
NextGov ==
    \/ GovBegin
    \/ GovCredentials
    \/ GovApiResolves
    \/ GovApiRejects
    \/ GovTimeout
    \/ GovClockAdvance

SpecGov == InitDeployed /\ [][NextGov]_vars

-----------------------------------------------------------------------------
(* Circuit breaker properties *)

\* The recorded failures that lie inside the trailing window at time t.
InWindowCount(log, t, c) ==
    Cardinality({i \in 1..Len(log) : t - log[i] < c.windowMs})

FailureRecorded == failLog' # failLog

CallMade == nCalls' # nCalls

ProbeInFlight == \E c \in Callers : calls[c].pc = "running" /\ calls[c].probe

\* C1: whenever a failure is recorded that puts the rate of failures inside the
\* trailing window above the threshold, the breaker is open afterwards; and a
\* call made while the breaker is open and less than resetMs after it opened
\* is rejected without invoking the wrapped function.
C1_OpensAboveThresholdAndRejects ==
    [][ /\ (FailureRecorded
              /\ FracGT(FailureRate(InWindowCount(failures', now, cfg), cfg), cfg.threshold))
           => state' = "open"
        /\ (CallMade /\ state = "open" /\ now - lastOpenTime < cfg.resetMs)
           => (invoked' = invoked /\ lastEvent' = "rejected"
               /\ state' = "open") ]_vars

\* The two halves of C1 that the code does satisfy: a closed breaker opens when
\* a recorded failure puts the rate above the threshold, and an open breaker
\* rejects every call made before resetMs has elapsed.
ClosedOpensAboveThreshold ==
    [][ (FailureRecorded /\ state = "closed"
           /\ FracGT(FailureRate(InWindowCount(failures', now, cfg), cfg), cfg.threshold))
        => (state' = "open" /\ lastOpenTime' = now) ]_vars

OpenRejectsBeforeReset ==
    [][ (CallMade /\ state = "open" /\ now - lastOpenTime < cfg.resetMs)
        => (invoked' = invoked /\ lastEvent' = "rejected" /\ state' = "open") ]_vars

\* C2: when the probing call fails, the breaker is open again and lastOpenTime
\* is the time of that failure.
C2_ProbeFailureReopens ==
    [][ (FailureRecorded /\ lastEvent' = "probe-failure")
        => (state' = "open" /\ lastOpenTime' = now) ]_vars

\* C3: a call made once resetMs has elapsed since the breaker opened is passed
\* to the wrapped function with the breaker half-open, and when that call
\* succeeds the breaker is closed and its failure history is empty.
C3_ProbeAdmittedAndSuccessCloses ==
    [][ /\ (CallMade /\ state = "open" /\ now - lastOpenTime >= cfg.resetMs)
           => (invoked' = invoked + 1 /\ state' = "half-open")
        /\ (calls' # calls /\ lastEvent' = "probe-success")
           => (state' = "closed" /\ failures' = <<>>) ]_vars

C3_Witness ==
    /\ lastEvent = "probe-success"
    /\ state = "closed"
    /\ failures = <<>>
    /\ Len(failLog) >= 2
    /\ now - lastOpenTime >= cfg.resetMs

\* C4: while the probe is in flight and the breaker is half-open, no other call
\* is passed to the wrapped function.
C4_OnlyTheProbeIsAdmitted ==
    [][ (state = "half-open" /\ ProbeInFlight) => invoked' = invoked ]_vars

\* C5: under the deployed configuration (threshold 0.5, window 60 s), once an
\* always-failing service has failed about two calls (three, here) the breaker
\* is open.
C5_DeployedOpensAfterAboutTwoFailures ==
    (/\ cfg = DeployedConfig
     /\ NoneInFlight
     /\ Len(failLog) >= 3
     /\ invoked = Len(failLog)
     /\ InWindowCount(failLog, now, cfg) = Len(failLog))
    => state = "open"

-----------------------------------------------------------------------------
(* Fallback chain properties *)

Done == req.pc = "done"

StrategyOrder == <<"model", "lexical", "default">>

\* The model-backed strategy completed and its confidence is above 0.7.
ModelMetFloor == trial.model = "succeeded" /\ FracGT(trial.confidence, Frac(7, 10))

\* The lexical strategy completed and its score is at least 0.7.
LexicalMetFloor == trial.lexical = "scored" /\ FracGE(trial.score, Frac(7, 10))

ModelFailed == trial.model \in {"retrieval-failed", "rejected", "failed"}

\* The FAQ entries of the request's language whose question overlaps the query
\* with the score the lexical strategy reported.
EntriesWithReportedScore ==
    {i \in 1..Len(FAQTable) :
        /\ FAQTable[i].languageCode = req.lang
        /\ LET s == CalculateKeywordOverlap(
                        ExtractKeywords(req.query, req.lang),
                        ExtractKeywords(FAQTable[i].question, req.lang))
           IN  FracGE(s, trial.score) /\ FracGE(trial.score, s)}

\* C6: the chain returns exactly one result per request, none before it is
\* done, and a result with mode online comes only from a model-backed strategy
\* that completed with confidence above 0.7.
C6_OneResultOnlineOnlyFromModel ==
    /\ Len(results) <= 1
    /\ Done <=> Len(results) = 1
    /\ \A i \in 1..Len(results) : results[i].mode = "online" => ModelMetFloor

C6_Witness ==
    /\ Done
    /\ results = <<Result("bedrock-text", "online", Frac(9, 10))>>
    /\ trial.model = "succeeded"

\* C7: the chain never stops on a failure: a request in progress always has a
\* next step, a failed model-backed attempt leaves the request at the lexical
\* strategy or beyond, a failed lexical attempt leaves it at the default or
\* done, and a finished request has exactly one result with a text.
C7_ChainNeverRaises ==
    /\ req.pc \in {"idle", "model", "inference", "awaiting", "lexical", "default", "done"}
    /\ req.pc \in {"model", "inference", "awaiting", "lexical", "default"}
       => ENABLED (ChainRetrieve \/ ChainInfer \/ ChainInferOk \/ ChainInferFail
                   \/ ChainLexical \/ ChainDefault)
    /\ ModelFailed => req.pc \in {"lexical", "default", "done"}
    /\ trial.lexical = "threw" => req.pc \in {"default", "done"}
    /\ Done => /\ Len(results) = 1
               /\ results[1].text \notin {NoText, Undefined}
               /\ (ModelFailed /\ trial.lexical = "threw")
                  => /\ results[1].mode = "offline"
                     /\ results[1].confidence = Frac(0, 1)
                     /\ results[1].text \in {DEFAULT_RESPONSES(l) : l \in LanguageCodes}

C7_Witness ==
    /\ Done
    /\ trial.model = "rejected"
    /\ trial.lexical = "threw"
    /\ req.lang = "xx"
    /\ results = <<Result("default-response-en", "offline", Frac(0, 1))>>

\* C8: the strategies attempted are a prefix of model, lexical, default; the
\* lexical strategy is attempted only when the model-backed result did not
\* meet its floor, the default only when the lexical result did not meet its
\* floor either; and the result returned is the one of the last strategy
\* attempted.
C8_StrategiesInOrderOnce ==
    /\ Len(attempts) <= Len(StrategyOrder)
    /\ \A i \in 1..Len(attempts) : attempts[i] = StrategyOrder[i]
    /\ Len(attempts) >= 2 => ~ModelMetFloor
    /\ Len(attempts) >= 3 => ~LexicalMetFloor
    /\ Done => \/ ModelMetFloor /\ attempts = <<"model">>
               \/ ~ModelMetFloor /\ LexicalMetFloor /\ attempts = <<"model", "lexical">>
               \/ ~ModelMetFloor /\ ~LexicalMetFloor /\ attempts = StrategyOrder

C8_Witness ==
    /\ Done
    /\ trial.model = "failed"
    /\ LexicalMetFloor
    /\ attempts = <<"model", "lexical">>

\* C9: when the model-backed strategy was not accepted, the result is the
\* answer of the best-matching entry, with mode offline, exactly when the
\* lexical score is at least 0.7, and the canned default otherwise.
C9_LexicalAcceptedFromFloor ==
    (Done /\ ~ModelMetFloor)
    => /\ Len(results) = 1
       /\ results[1].mode = "offline"
       /\ IF LexicalMetFloor
          THEN /\ \E i \in EntriesWithReportedScore :
                     results[1].text = FAQTable[i].answer
               /\ results[1].confidence = trial.score
          ELSE /\ results[1].text = GetDefaultResponse(req.lang)
               /\ results[1].confidence = Frac(0, 1)

C9_Witness ==
    /\ Done
    /\ ~ModelMetFloor
    /\ trial.lexical = "scored"
    /\ trial.score = Frac(7, 10)
    /\ results = <<Result("answer-2", "offline", Frac(7, 10))>>

\* C10: the response mode of a request is assigned exactly once, when a
\* strategy's result is accepted, and keeps that value.
C10_ModeSetExactlyOnce ==
    /\ modeSets <= 1
    /\ Done => (modeSets = 1 /\ Len(results) = 1 /\ ctx.mode = results[1].mode
                /\ ctx.mode \in {"online", "offline"})
    /\ ~Done => (modeSets = 0 /\ ctx.mode = "none")

C10_Witness ==
    /\ Done
    /\ modeSets = 1
    /\ ctx.mode = "offline"
    /\ Len(attempts) = 3

-----------------------------------------------------------------------------
(* Request orchestrator properties *)

AllSendsFailed == Len(sendLog) > 0 /\ \A i \in 1..Len(sendLog) : ~sendLog[i].ok

\* C11: when every send fails, the orchestrator makes exactly 3 send attempts,
\* each at least 5 seconds after the one before, then the request is failed
\* and reported, and no further attempt is made.
C11_ThreeSpacedAttemptsThenFailed ==
    AllSendsFailed =>
        /\ Len(sendLog) <= 3
        /\ \A i \in 1..(Len(sendLog) - 1) : sendLog[i + 1].time - sendLog[i].time >= 5000
        /\ (Len(sendLog) = 3) <=> (orch.stage = "done")
        /\ orch.stage = "done" =>
              (orch.status = "failed" /\ orch.reported /\ ~ENABLED OrchSend)

C11_Witness ==
    AllSendsFailed /\ Len(sendLog) = 3 /\ orch.status = "failed" /\ orch.reported

\* C12: a send of the voice portion is initiated only after a send of the text
\* portion was initiated.
C12_TextInitiatedBeforeVoice ==
    \A j \in 1..Len(sendLog) :
        sendLog[j].portion = "voice" =>
            \E i \in 1..(j - 1) : sendLog[i].portion = "text"

C12_Witness ==
    /\ orch.voiceEnabled /\ orch.audio /\ orch.status = "delivered"
    /\ \E j \in 1..Len(sendLog) : sendLog[j].portion = "voice"

InLog(st) == \E i \in 1..Len(stageLog) : stageLog[i] = st

IsPrefix(s, t) == Len(s) <= Len(t) /\ \A i \in 1..Len(s) : s[i] = t[i]

\* The stages of §4.5 for a request, to its end: transcribing for voice
\* input only, synthesizing for an enabled voice reply only, and none of
\* language_detecting, resolving and synthesizing when `cutShort`.
StagesTo(end, kind, voiceEnabled, cutShort) ==
    <<"received">>
    \o (IF kind = "voice" THEN <<"transcribing">> ELSE <<>>)
    \o (IF cutShort THEN <<>> ELSE <<"language_detecting", "resolving">>)
    \o (IF voiceEnabled /\ ~cutShort THEN <<"synthesizing">> ELSE <<>>)
    \o <<"delivering", end>>

\* C13 as stated: the stages a request went through are the stages of the
\* fixed order from `received` on, each once and none overlapping, with
\* transcribing left out exactly for text input and synthesizing left out
\* exactly when voice is disabled.
C13_StagesInFixedOrderSkipsExact ==
    \E end \in {"delivered", "failed"} :
        IsPrefix(stageLog, StagesTo(end, orch.kind, orch.voiceEnabled, FALSE))

\* C13, amended: as above, except that a request whose transcription failed
\* goes from transcribing straight to delivering, leaving out language
\* detection, resolving and synthesizing whether or not voice is enabled.
C13_StagesInFixedOrder ==
    \E end \in {"delivered", "failed"} :
        IsPrefix(stageLog,
                 StagesTo(end, orch.kind, orch.voiceEnabled,
                          orch.notice = "resend-or-type"))

C13_Witness ==
    stageLog = <<"received", "transcribing", "language_detecting", "resolving",
                 "synthesizing", "delivering", "delivered">>

\* C14: for a voice input whose transcription failed with its retries
\* exhausted, the response is the 'please resend or type' message of the
\* user's language, and neither language detection nor the fallback chain was
\* invoked.
C14_TranscriptionFailureSkipsDownstream ==
    (orch.kind = "voice" /\ orch.transcription = "exhausted") =>
        /\ orch.notice = "resend-or-type"
        /\ orch.text = ResendOrTypeMessage(orch.lang)
        /\ orch.detectCalls = 0 /\ orch.chainCalls = 0
        /\ ~InLog("language_detecting") /\ ~InLog("resolving")

C14_Witness ==
    /\ orch.kind = "voice" /\ orch.transcription = "exhausted"
    /\ orch.status = "delivered" /\ orch.notice = "resend-or-type"

\* C15: after a failed synthesis the response has no voice portion, the request
\* goes on to delivery, and it fails only if delivery fails.
C15_SynthesisFailureDegradesToText ==
    orch.synthesisFailed =>
        /\ ~orch.audio
        /\ \A i \in 1..Len(sendLog) : sendLog[i].portion = "text"
        /\ orch.stage = "synthesizing" => ENABLED OrchSend
        /\ orch.stage = "done" =>
              /\ InLog("delivering")
              /\ orch.status = "failed" => (AllSendsFailed /\ Len(sendLog) = maxDeliveryRetries)
              /\ orch.status = "delivered" => sendLog[Len(sendLog)].ok

C15_Witness ==
    /\ orch.synthesisFailed /\ orch.status = "delivered"
    /\ Len(sendLog) = 1 /\ sendLog[1].portion = "text" /\ sendLog[1].ok

-----------------------------------------------------------------------------
(* Retrieval engine properties *)

\* The entries of a scan whose similarity to the query is at least 0.7.
Qualifying(query, faqs) ==
    {i \in 1..Len(faqs) :
        LET s == CosineSimilarity(query, faqs[i].embedding)
        IN  s.dot > 0 /\ 100 * s.dot * s.dot >= 49 * s.na * s.nb}

\* C16: a search returns at most 5 entries, each an entry of the scan with its
\* similarity to the query, and each similarity is at least 0.7.
C16_AtMostFiveAllAboveFloor ==
    ragOut.kind = "result" =>
        /\ Len(ragOut.entries) <= 5
        /\ Len(ragOut.scores) = Len(ragOut.entries)
        /\ \A i \in 1..Len(ragOut.entries) :
              /\ \E j \in Qualifying(ragOut.query, ragOut.scanned) :
                    ragOut.scanned[j] = ragOut.entries[i]
              /\ ragOut.scores[i] = CosineSimilarity(ragOut.query, ragOut.entries[i].embedding)

C16_Witness ==
    /\ ragOut.kind = "result"
    /\ Cardinality(Qualifying(ragOut.query, ragOut.scanned)) > 5
    /\ Len(ragOut.entries) = 5

EmbeddingRequested == nRag' = nRag + 1

\* C17: when the embedding of a text is requested and the embedding service
\* produced that text's vector no more than the TTL ago, the service is not
\* invoked; when it did so more than the TTL ago, the service is invoked.
C17_CachedWithinTTLRegeneratedAfter ==
    [][ EmbeddingRequested =>
          LET t == rag'.text
          IN  /\ (servedAt[t] >= 0 /\ now - servedAt[t] <= cacheTTL)
                 => embedCalls' = embedCalls
              /\ (servedAt[t] >= 0 /\ now - servedAt[t] > cacheTTL)
                 => embedCalls' = embedCalls + 1 ]_vars

\* The parts of C17 the code does satisfy: no second invocation within the
\* TTL, and an invocation after the TTL unless the key now holds the vector
\* of another text with the same hash.
WithinTTLNotInvoked ==
    [][ EmbeddingRequested =>
          LET t == rag'.text
          IN  (servedAt[t] >= 0 /\ now - servedAt[t] <= cacheTTL)
              => embedCalls' = embedCalls ]_vars

AfterTTLInvokedUnlessKeyShared ==
    [][ EmbeddingRequested =>
          LET t == rag'.text
              e == cache[HashText(t)]
          IN  (servedAt[t] >= 0 /\ now - servedAt[t] > cacheTTL
                 /\ (e.present => e.text = t))
              => embedCalls' = embedCalls + 1 ]_vars

\* C20: no call of the retrieval engine to an external service (the embedding
\* service, the knowledge store) stays in progress longer than the longest
\* timeout configured for a component.
C20_ExternalCallsBounded ==
    rag.pc \in {"embedding", "searching"} => now - rag.started <= voiceProcessorTimeout

-----------------------------------------------------------------------------
(* Lexical matcher properties *)

\* Every piece of the query is empty or, lower-cased, a stop word.
NoKeywords(query, lang) ==
    \A i \in 1..Len(query) :
        query[i] = "" \/ ToLowerCase(query[i]) \in STOP_WORDS(lang)

\* C18: every candidate's score is a number between 0 and 1, and it is 0 for
\* every candidate when the query has no keywords.
C18_ScoreInUnitIntervalZeroForEmptyQuery ==
    lexOut.called =>
        \A i \in 1..Len(lexOut.scores) :
            LET sc == lexOut.scores[i]
            IN  /\ sc.den > 0
                /\ 0 <= sc.num /\ sc.num <= sc.den
                /\ NoKeywords(lexIn.query, lexIn.lang) => sc.num = 0

C18_Witness ==
    /\ lexOut.called
    /\ Len(lexIn.query) > 0 /\ NoKeywords(lexIn.query, lexIn.lang)
    /\ Len(lexOut.scores) > 1
    /\ \A i \in 1..Len(lexOut.scores) : lexOut.scores[i].num = 0 /\ lexOut.scores[i].den > 0

-----------------------------------------------------------------------------
(* Circuit breaker: the failure history *)

\* C19: the recorded failure timestamps all lie inside the trailing window
\* that ends at the current time.
C19_FailuresInsideWindowAlways ==
    \A i \in 1..Len(failures) : now - failures[i] < cfg.windowMs

\* C19 as amended: right after a failure is recorded, the recorded failure
\* timestamps all lie inside the trailing window that ends at that time.
C19_FailuresInsideWindowWhenRecorded ==
    [][ FailureRecorded =>
          \A i \in 1..Len(failures') : now' - failures'[i] < cfg.windowMs ]_vars

\* A failure was just recorded and an older one, outside the window, is gone.
C19_Witness ==
    /\ lastEvent \in {"failure", "probe-failure"}
    /\ Len(failures) < Len(failLog)
    /\ \E i \in 1..Len(failLog) : now - failLog[i] >= cfg.windowMs
    /\ \A i \in 1..Len(failures) : now - failures[i] < cfg.windowMs

-----------------------------------------------------------------------------
(* AIEngine.generateResponse: what the caller sees *)

Unavailable == "AI Engine unavailable - fallback to offline mode"

\* C21: what generateResponse gives a caller is either a response with mode
\* online, and then the call passed the breaker and the wrapped function
\* succeeded, or the one 'unavailable' error, whatever the cause; a call the
\* open breaker rejects gives that same error.
C21_OnlineOrTheOneUnavailableError ==
    [][ /\ \A c \in Callers :
              \/ outcome'[c].kind \in {"none", "pending"}
              \/ outcome'[c].kind = "response" /\ outcome'[c].mode = "online"
              \/ outcome'[c].kind = "error" /\ outcome'[c].message = Unavailable
        /\ (\E c \in Callers : outcome'[c].kind = "response" /\ outcome'[c] # outcome[c])
           => (lastEvent' \in {"success", "probe-success"} /\ calls' # calls)
        /\ (CallMade /\ lastEvent' = "rejected")
           => \E c \in Callers : outcome'[c].kind = "error" /\ calls'[c].pc = "idle" ]_vars

C21_Witness ==
    /\ lastEvent = "rejected"
    /\ \E c \in Callers : outcome[c].kind = "error" /\ outcome[c].message = Unavailable
    /\ \E c \in Callers : outcome[c].kind = "response"

-----------------------------------------------------------------------------
(* Transcription retry properties *)

\* startTranscriptionWithRetry gave up: transcribeAudio threw its 'failed
\* after' error.
GaveUpStarting ==
    /\ txOut.kind = "error"
    /\ txOut.message \in {"Transcription failed after " \o ToString(maxAttempts)
                              \o " attempts: " \o e : e \in StartErrors}

\* C22: when every attempt to start the transcription fails, the service has
\* made exactly 2 attempts, the second one backoff delay (1000 ms) after the
\* first, and the call has failed with the 'failed after' error; at no time
\* are there more than 2 attempts in one call.
C22_TwoAttemptsThenFails ==
    /\ Len(tx.starts) <= 2
    /\ GaveUpStarting =>
          /\ Len(txOut.starts) = 2
          /\ txOut.starts[2] - txOut.starts[1] = 1000
          /\ txOut.response.statusCode = 503
    /\ (tx.pc = "starting" /\ Len(tx.starts) = 2) => ~ENABLED TxRetry

C22_Witness == GaveUpStarting /\ Len(txOut.starts) = 2 /\ tx.pc = "idle"

\* C23: when the transcription gave up, it had retried exactly 2 times: 3
\* attempts, the second 1000 ms after the first and the third 2000 ms after
\* the second.
C23_TwoRetriesWithDoublingDelays ==
    GaveUpStarting =>
        /\ Len(txOut.starts) = 3
        /\ txOut.starts[2] - txOut.starts[1] = 1000
        /\ txOut.starts[3] - txOut.starts[2] = 2000

\* C24: a transcription does not fail with 'Transcription job failed' while
\* attempts remain: the job is started again first.
C24_FailedJobIsRetried ==
    (txOut.kind = "error"
        /\ txOut.message \in {"Transcription job failed: Unknown reason",
                              "Transcription job failed: Unsupported media format",
                              "Transcription job failed: The media download failed after 3 tries"})
        => Len(txOut.starts) >= maxAttempts

-----------------------------------------------------------------------------
(* Language detector properties *)

LowConfidence(r) == ~FracGE(r.confidence, confidenceThreshold)

\* C25: every detectLanguage call returns a result, never an error: the
\* detected language with source 'detected' exactly when the top confidence
\* is at least 0.85; below it the stored preferred language with source
\* 'preference' if there is one and the read gave it, and otherwise, a failed
\* read included, Hindi with source 'default'.
C25_DetectedPreferenceOrDefault ==
    \A d \in DetCalls :
        LET r == detOut[d]
        IN  /\ r.kind \in {"none", "result"}
            /\ r.kind = "result" =>
                  /\ (r.source = "detected") <=> ~LowConfidence(r)
                  /\ LowConfidence(r) =>
                        IF r.sendOk /\ r.stored # ""
                        THEN r.source = "preference" /\ r.languageCode = r.stored
                        ELSE r.source = "default" /\ r.languageCode = "hi"

C25_Witness ==
    /\ detOut[1].kind = "result"
    /\ detOut[1].source = "default"
    /\ ~detOut[1].sendOk
    /\ detOut[1].stored # ""
    /\ \E i \in 1..Len(detLog) : detLog[i].identified = "" /\ detLog[i].sendOk /\ detLog[i].before # ""
    /\ \E i \in 1..Len(detLog) : detLog[i].identified # ""

\* The latest three interactions all identified language L.
RunOfThree(L) ==
    /\ Len(detLog) = 3
    /\ \A i \in 1..3 : detLog[i].identified = L

\* C26: an interaction in which the detector identified L for the third
\* consecutive interaction leaves L as the preferred language (provided the
\* store took its writes), and any other interaction leaves the preferred
\* language as it was.
C26_PreferenceFollowsRunsOfThree ==
    Len(detLog) > 0 =>
        LET e == detLog[Len(detLog)]
        IN  IF e.identified # "" /\ RunOfThree(e.identified)
            THEN (\A i \in 1..3 : detLog[i].sendOk) => e.after = e.identified
            ELSE e.after = e.before

-----------------------------------------------------------------------------
(* Webhook properties *)

\* The signature header of the event is the HMAC of its raw body under the
\* webhook secret, with or without the prefix.
SignedWithSecret(event) ==
    /\ event.signature.present
    /\ event.secret # ""
    /\ event.signature.hex = Hmac(event.secret, event.body.id)

\* C27: audio is put in S3 and a request is forwarded to the orchestrator
\* only for POST events signed with the webhook secret; a POST that is not
\* is answered 401 at once, before the body is parsed, and no send follows.
C27_OnlySignedRequestsProcessed ==
    /\ \A i \in 1..Len(s3Log) : SignedWithSecret(s3Log[i])
    /\ \A i \in 1..Len(invokeLog) : SignedWithSecret(invokeLog[i])
    /\ hook.pc # "idle" => SignedWithSecret(hook.event)
    /\ (hookOut.event.httpMethod = "POST" /\ ~SignedWithSecret(hookOut.event))
          => hookOut.statusCode = 401 /\ hook.pc = "idle"

C27_Witness ==
    /\ hookOut.event.httpMethod = "POST"
    /\ hookOut.statusCode = 401
    /\ hookOut.event.signature.present
    /\ hookOut.event.signature.hex.text = "voice"
    /\ hookOut.event.body.id = "voice-17MB"
    /\ Len(s3Log) = 1
    /\ Len(invokeLog) = 1

\* C28: no voice note of more than 16MB is put in S3 or forwarded to the
\* orchestrator, and no request that carries one is answered 200.
C28_OversizedVoiceNoteRejected ==
    /\ \A i \in 1..Len(s3Log) : s3Log[i].body.actualSize <= MAX_AUDIO_SIZE
    /\ \A i \in 1..Len(invokeLog) : invokeLog[i].body.actualSize <= MAX_AUDIO_SIZE
    /\ hookOut.event.body.actualSize > MAX_AUDIO_SIZE => hookOut.statusCode # 200

-----------------------------------------------------------------------------
(* Cleanup properties *)

RetentionMs(prefix) == IF prefix = "input/" THEN OneDayMs ELSE 2 * OneDayMs

PastRetention(e) == e.at - e.obj.lastModified > RetentionMs(e.obj.prefix)

\* C29: a cleanup run asks for the deletion of, and removes, only input/
\* objects older than 24 hours and output/ objects older than 48 hours; and
\* when a run has completed without error, every object it listed that was
\* past its retention had its deletion requested and is gone.
C29_OnlyExpiredDeletedAllExpiredDeleted ==
    /\ \A e \in cleanLog.requested : PastRetention(e)
    /\ \A e \in cleanLog.removed : PastRetention(e)
    /\ \A o \in clean.batch : PastRetention([obj |-> o, at |-> now])
    /\ cleanLog.status = "done" =>
          \A e \in cleanLog.listed :
              PastRetention(e) => e \in cleanLog.requested /\ e.obj \notin bucket

\* The parts of C29 the code does satisfy: only objects past their retention
\* are requested and removed, and a run that completed without error
\* requested the deletion of every object it listed that was past it.
OnlyExpiredRequestedAllExpiredRequested ==
    /\ \A e \in cleanLog.requested : PastRetention(e)
    /\ \A e \in cleanLog.removed : PastRetention(e)
    /\ \A o \in clean.batch : PastRetention([obj |-> o, at |-> now])
    /\ cleanLog.status = "done" =>
          \A e \in cleanLog.listed : PastRetention(e) => e \in cleanLog.requested

-----------------------------------------------------------------------------
(* Government API properties *)

\* C30: a queryGovernmentAPI call whose API call timed out or failed does
\* not fail: it returns cached data.
C30_TimeoutOrErrorFallsBackToCache ==
    govOut.error \in {"Government API timeout", "API request failed"}
        => govOut.kind = "data"

-----------------------------------------------------------------------------
(* Breaker threshold, probe and availability properties *)

\* C31: a closed breaker opens only in a step that leaves the rate of the
\* failures inside the window strictly above the threshold; with a rate
\* equal to the threshold it stays closed.
C31_OpensOnlyStrictlyAboveThreshold ==
    [][(state = "closed" /\ state' = "open")
          => FracGT(FailureRate(Len(failures'), cfg), cfg.threshold)]_vars

-----------------------------------------------------------------------------
(* Lexical score and selection properties *)

FracEQ(a, b) == a.num * b.den = b.num * a.den

\* |query keywords /\ candidate keywords| / |query keywords|, over sets
SetOverlap(query, lang, faq) ==
    LET Q == Range(ExtractKeywords(query, lang))
        K == Range(ExtractKeywords(faq.question, lang))
    IN  IF Q = {} THEN Frac(0, 1) ELSE Frac(Cardinality(Q \cap K), Cardinality(Q))

\* C32: the score of every candidate is the number of distinct query keywords
\* found among the candidate's keywords over the number of distinct query
\* keywords (so a repeated query word does not change it).
C32_ScoreIsFractionOfDistinctQueryTerms ==
    lexOut.called =>
        \A i \in 1..Len(lexOut.scores) :
            FracEQ(lexOut.scores[i], SetOverlap(lexIn.query, lexIn.lang, lexOut.scanned[i]))

\* The first candidate whose score no candidate exceeds
FirstHighest(scores) ==
    CHOOSE i \in 1..Len(scores) :
        /\ \A j \in 1..Len(scores) : FracGE(scores[i], scores[j])
        /\ \A j \in 1..(i - 1) : FracGT(scores[i], scores[j])

\* C33: the score returned is the highest score of any candidate, and the
\* match returned, if there is one, is the first candidate in the order the
\* store returned them that has that score; a highest score that meets the
\* threshold always gives that match.
C33_FirstOfTheHighestScoring ==
    (lexOut.called /\ Len(lexOut.scores) > 0) =>
        LET first == FirstHighest(lexOut.scores)
            faqs  == lexOut.scanned
        IN  /\ FracEQ(lexOut.best.score, lexOut.scores[first])
            /\ lexOut.best.match # NoMatch => lexOut.best.match = faqs[first]
            /\ FracGE(lexOut.scores[first], keywordMatchThreshold)
                  => lexOut.best.match = faqs[first]

C33_Witness ==
    /\ lexOut.called
    /\ \E i, j \in 1..Len(lexOut.scores) :
          /\ i < j
          /\ FracEQ(lexOut.scores[i], lexOut.scores[j])
          /\ FracGE(lexOut.scores[i], keywordMatchThreshold)
          /\ \A k \in 1..Len(lexOut.scores) : FracGE(lexOut.scores[i], lexOut.scores[k])
          /\ lexOut.best.match = lexOut.scanned[i]

(* Retrieval ranking and embedding failure properties *)

\* C34: the scores of a result are in descending order, and the ranked list
\* is the same one the search gives for the same entries scanned in the
\* opposite order.
C34_RankedDescendingSameForAnyScanOrder ==
    ragOut.kind = "result" =>
        /\ \A i \in 1..(Len(ragOut.scores) - 1) :
              ~ScoreGT(ragOut.scores[i + 1], ragOut.scores[i])
        /\ SemanticSearch(ragOut.query, Reverse(ragOut.scanned)).entries = ragOut.entries

\* The part of C34 the code does satisfy: the scores are in descending order.
RankedDescending ==
    ragOut.kind = "result" =>
        \A i \in 1..(Len(ragOut.scores) - 1) :
            ~ScoreGT(ragOut.scores[i + 1], ragOut.scores[i])

EmbeddingFailed == rag.pc = "embedding" /\ rag'.pc = "idle"

\* C35: when the embedding service fails on a cache miss, the caller gets the
\* error and the cache is as it was, with nothing under the key of the text;
\* and the next request for a text whose last request failed that way invokes
\* the embedding service again.
C35_EmbeddingFailurePropagatesCacheUntouched ==
    [][ /\ EmbeddingFailed =>
              /\ ragOut'.kind = "error"
              /\ ragOut'.error = "embedding service error"
              /\ cache' = cache
              /\ ~cache'[HashText(rag.text)].present
        /\ (EmbeddingRequested /\ rag'.text \in failedTexts)
              => embedCalls' = embedCalls + 1 ]_vars

\* The part of C35 the code does satisfy: the error reaches the caller and
\* the cache is as the lookup left it.
EmbeddingFailurePropagates ==
    [][ EmbeddingFailed =>
              /\ ragOut'.kind = "error"
              /\ ragOut'.error = "embedding service error"
              /\ cache' = cache
              /\ ~cache'[HashText(rag.text)].present ]_vars

(* Circuit breaker: the probe and the availability check *)

\* C36: a half-open breaker closes, and the failure history is cleared, only
\* in the step in which the call admitted as the probe succeeds, never when a
\* call admitted while the breaker was closed succeeds.
C36_OnlyTheProbeCloses ==
    [][ (state = "half-open"
            /\ (state' = "closed" \/ (failures # <<>> /\ failures' = <<>>)))
          => lastEvent' = "probe-success" ]_vars

\* C37: whenever the breaker is not closed and resetMs has elapsed since it
\* opened, isOnlineAvailable() answers true, whether or not a call has been
\* made in the meantime.
C37_AvailableOnceResetElapsed ==
    (state \in {"open", "half-open"} /\ now - lastOpenTime >= cfg.resetMs)
        => IsOnlineAvailable(Breaker)

(* Embedding cache: whose vector is returned *)

\* C38: the vector generateEmbedding returned for a text, from the cache or
\* from the service, is the vector the embedding service produces for that
\* text.
C38_VectorIsTheTextsOwn ==
    rag.pc = "searching" => rag.embedding = TitanEmbedding(rag.text)

(* Language detector: overlapping calls *)

\* An Update of updateLanguageHistory resolved in this step for call d.
HistoryUpdated(d) ==
    det[d].pc = "history-update" /\ det'[d].pc = "idle" /\ detOut'[d].sendOk

\* C39: every history update that succeeds, whether or not another
\* detectLanguage call for the user is in progress, leaves in the store the
\* history that was stored just before it with its own detection added (the
\* last 10 of them), so that no detection already stored is lost.
C39_UpdateKeepsWhatIsStored ==
    [][ \A d \in DetCalls :
          HistoryUpdated(d) =>
              user'.history = LastN(Append(user.history, det[d].top.languageCode), historyKept)
      ]_vars

====
